---- MODULE Spec2Model ----
(***************************************************************************)
(* Lead-performance tracker: the broker store kept by App (App.tsx) and    *)
(* the derived balance / monthly projections of BrokerDashboard.           *)
(*                                                                         *)
(* Representation                                                          *)
(*   string (a name)   a sequence of one-character strings                 *)
(*   date "YYYY-MM-DD" <<year, month, day>>; month "YYYY-MM" <<year,month>>*)
(*                     (zero-padded fixed-width fields, so the string      *)
(*                     order is the lexicographic order of the tuple)      *)
(*   object            a record; an absent property is a field that is     *)
(*                     not in the record's DOMAIN                          *)
(*   T | null          <<>> for null, <<x>> for a value x                  *)
(***************************************************************************)
EXTENDS Integers, Sequences, FiniteSets, TLC

VARIABLES
    brokers,         \* App state: BrokerProfile[]
    selectedBroker,  \* App state: BrokerProfile | null
    selectedMonth,   \* BrokerDashboard state: "YYYY-MM"
    editingBroker,   \* BrokerManagement state: BrokerProfile | null (edit modal)
    sortConfig,      \* BrokerManagement state: { key, direction } of the comparison table
    form,            \* BrokerDashboard state: the daily form, the delete dialog, the bulk edit
    pendingFile,     \* the file a FileReader is still reading, if any
    pdfExport,       \* the page while reports render: body class 'pdf-export-mode', renders in flight
    storage,         \* localStorage item 'lead-performance-brokers', if any
    storageFull,     \* whether localStorage.setItem throws (quota exceeded)
    lastCall         \* the handler that ran last and what it reported

vars == <<brokers, selectedBroker, selectedMonth, editingBroker, sortConfig, form, pendingFile, pdfExport,
          storage, storageFull, lastCall>>

-----------------------------------------------------------------------------
(* Strings *)

LowerChar(c) ==
    CASE c = "A" -> "a"
      [] c = "B" -> "b"
      [] c = "N" -> "n"
      [] c = "O" -> "o"
      [] OTHER -> c

toLowerCase(s) == [i \in 1..Len(s) |-> LowerChar(s[i])]

RECURSIVE trim(_)
\* s.trim()
trim(s) ==
    IF s = <<>> THEN s
    ELSE IF Head(s) = " " THEN trim(Tail(s))
    ELSE IF s[Len(s)] = " " THEN trim(SubSeq(s, 1, Len(s) - 1))
    ELSE s

Ana == <<"A", "n", "a">>
ana == <<"a", "n", "a">>
Bob == <<"B", "o", "b">>

NameInputs == {Ana, ana, Bob}

\* what the name field of the edit modal can hold
EditedNameInputs == NameInputs \cup {<<" ", "B", "o", "b", " ">>, <<" ">>}

-----------------------------------------------------------------------------
(* Objects *)

\* { ...a, ...b }
Spread(a, b) ==
    [k \in (DOMAIN a) \cup (DOMAIN b) |-> IF k \in DOMAIN b THEN b[k] ELSE a[k]]

\* (entry.repiqueLeads || 0)
RepiqueOrZero(entry) ==
    IF "repiqueLeads" \in DOMAIN entry THEN entry.repiqueLeads ELSE 0

-----------------------------------------------------------------------------
(* Dates *)

\* the value of a cleared <input type="date">: the empty string
EmptyDate == <<>>

\* a.date < b.date on strings: "" is less than every other string
DateLess(a, b) ==
    IF b = EmptyDate THEN FALSE
    ELSE IF a = EmptyDate THEN TRUE
    ELSE \/ a[1] < b[1]
         \/ a[1] = b[1] /\ a[2] < b[2]
         \/ a[1] = b[1] /\ a[2] = b[2] /\ a[3] < b[3]

\* `${selectedMonth}-01`
FirstOfMonth(month) == <<month[1], month[2], 1>>

\* a prefix test that stops after the year
StartsWithYear(date, month) == date # EmptyDate /\ date[1] = month[1]

\* date.startsWith(selectedMonth)
StartsWithMonth(date, month) ==
    date # EmptyDate /\ date[1] = month[1] /\ date[2] = month[2]

\* new Date("") is an Invalid Date: its getTime() is NaN
TimeIsNaN(date) == date = EmptyDate

\* new Date(date).getTime(), in days since 1970-01-01 (the comparators use
\* only the sign of a difference of two such values)
getTime(date) ==
    LET y   == IF date[2] <= 2 THEN date[1] - 1 ELSE date[1]
        era == y \div 400
        yoe == y - era * 400
        mp  == IF date[2] > 2 THEN date[2] - 3 ELSE date[2] + 9
        doy == (153 * mp + 2) \div 5 + date[3] - 1
        doe == yoe * 365 + yoe \div 4 - yoe \div 100 + doy
    IN  era * 146097 + doe - 719468

-----------------------------------------------------------------------------
(* Array helpers *)

\* (a, b) => new Date(a.date).getTime() - new Date(b.date).getTime(), as sort
\* reads it: a NaN result counts as +0
CompareByTime(a, b) ==
    IF TimeIsNaN(a.date) \/ TimeIsNaN(b.date) THEN 0
    ELSE getTime(a.date) - getTime(b.date)

RECURSIVE InsertByTime(_, _)
\* Insertion from the back: e moves in front of every trailing element that
\* compares greater.  Inserting the elements in array order gives the stable
\* sort; a comparator that is not consistent (an Invalid Date among two or more
\* dates) leaves the order to the engine, and this is the order insertion gives.
InsertByTime(sorted, e) ==
    IF sorted = <<>> THEN <<e>>
    ELSE IF CompareByTime(sorted[Len(sorted)], e) > 0
         THEN Append(InsertByTime(SubSeq(sorted, 1, Len(sorted) - 1), e),
                     sorted[Len(sorted)])
         ELSE Append(sorted, e)

\* a projection that forgets to sort
SortChronologicalAsStored(entries) == entries

RECURSIVE SortChronological(_)
\* [...profile.dailyEntries].sort(CompareByTime)
SortChronological(entries) ==
    IF entries = <<>> THEN <<>>
    ELSE InsertByTime(SortChronological(SubSeq(entries, 1, Len(entries) - 1)),
                      entries[Len(entries)])

Reverse(s) == [i \in 1..Len(s) |-> s[Len(s) + 1 - i]]

RECURSIVE SumOver(_, _)
\* entries.reduce((sum, entry) => sum + entry[field], 0), with
\* (entry.repiqueLeads || 0) for repiqueLeads
SumOver(field, entries) ==
    IF entries = <<>> THEN 0
    ELSE LET entry == entries[Len(entries)]
         IN  SumOver(field, SubSeq(entries, 1, Len(entries) - 1))
               + (IF field = "repiqueLeads" THEN RepiqueOrZero(entry) ELSE entry[field])

\* findIndex / find over the positions that pass the test: the first of
\* them, 0 when none (the code's -1 / undefined)
FirstOf(hits) ==
    IF hits = {} THEN 0 ELSE CHOOSE i \in hits : \A j \in hits : i <= j

-----------------------------------------------------------------------------
(* BrokerDashboard: derived projections *)

\* the day's balance change
DayDelta(entry) ==
    entry.newLeads + RepiqueOrZero(entry) - entry.discardedLeads - entry.signedLeads

RECURSIVE BalanceFold(_, _)
\* chronologicalEntries.map(...) with the running currentLeadBase
BalanceFold(chronological, currentLeadBase) ==
    IF chronological = <<>> THEN <<>>
    ELSE LET entry           == Head(chronological)
             startOfDayBalance == currentLeadBase
             endOfDayBalance   == currentLeadBase + DayDelta(entry)
             result == Spread(entry, [startOfDayBalance |-> startOfDayBalance,
                                      endOfDayBalance   |-> endOfDayBalance])
         IN  <<result>> \o BalanceFold(Tail(chronological), endOfDayBalance)

\* most recent first
entriesWithCalculatedBalances(profile) ==
    Reverse(BalanceFold(SortChronological(profile.dailyEntries), profile.initialLeads))

RECURSIVE MonthStartFold(_, _, _)
\* the for-loop with break of monthlySummary
MonthStartFold(chronological, month, currentLeadBaseForMonth) ==
    IF chronological = <<>> THEN currentLeadBaseForMonth
    ELSE IF DateLess(Head(chronological).date, FirstOfMonth(month))
         THEN MonthStartFold(Tail(chronological), month,
                             currentLeadBaseForMonth + DayDelta(Head(chronological)))
         ELSE currentLeadBaseForMonth

\* x.toFixed(1) of x = (num / den) * 100, as a number of tenths
ToFixed1(num, den) == (2000 * num + den) \div (2 * den)

monthlySummary(profile, month) ==
    LET chronologicalEntries == SortChronological(profile.dailyEntries)
        currentLeadBaseForMonth ==
            MonthStartFold(chronologicalEntries, month, profile.initialLeads)
        InMonth(entry) == StartsWithMonth(entry.date, month)
        monthEntries == SelectSeq(chronologicalEntries, InMonth)
        newLeads == SumOver("newLeads", monthEntries)
        repiqueLeads == SumOver("repiqueLeads", monthEntries)
        signedLeads == SumOver("signedLeads", monthEntries)
        discardedLeads == SumOver("discardedLeads", monthEntries)
        totalLeadsIn == newLeads + repiqueLeads
    IN  [newLeads |-> newLeads,
         repiqueLeads |-> repiqueLeads,
         signedLeads |-> signedLeads,
         discardedLeads |-> discardedLeads,
         conversionRate |-> IF totalLeadsIn > 0 THEN ToFixed1(signedLeads, totalLeadsIn) ELSE 0,
         initialLeadsForMonth |-> currentLeadBaseForMonth,
         finalLeadsForMonth |->
             currentLeadBaseForMonth + totalLeadsIn - discardedLeads - signedLeads]

-----------------------------------------------------------------------------
(* Input domains *)

D1 == <<2023, 12, 31>>
D2 == <<2024, 1, 1>>
D3 == <<2024, 1, 2>>
D4 == <<2024, 2, 1>>

\* what the date input of the daily form can hold
Dates == {D1, D2, D3, D4, EmptyDate}

Months == {<<2023, 12>>, <<2024, 1>>, <<2024, 2>>}

\* new Date().toISOString().slice(0, 7) when the dashboard mounts
CurrentMonth == <<2024, 1>>

\* the dashboard's selectedMonth does not exist while BrokerManagement is shown
NoMonth == <<>>

\* initialState of the daily form
initialState ==
    [newLeads |-> 0, discardedLeads |-> 0, repiqueLeads |-> 0, localVisits |-> 0,
     contactingLeads |-> 0, inProgressLeads |-> 0, scheduledLeads |-> 0,
     negotiationLeads |-> 0, creditAnalysisLeads |-> 0, approvedLeads |-> 0,
     signedLeads |-> 0]

\* Form contents a user submits (dailyData)
FormA == [initialState EXCEPT !.newLeads = 10, !.discardedLeads = 2, !.signedLeads = 1]
FormB == [initialState EXCEPT !.newLeads = 5, !.repiqueLeads = 3, !.signedLeads = 2]
FormC == [initialState EXCEPT !.discardedLeads = 120, !.localVisits = 1]

\* { ...dailyData, date: selectedDate }
EntryOf(dailyData, date) == Spread(dailyData, [date |-> date])

\* An entry written before repiqueLeads existed
LegacyEntry ==
    [date |-> D1, newLeads |-> 4, discardedLeads |-> 1, localVisits |-> 0,
     contactingLeads |-> 0, inProgressLeads |-> 0, scheduledLeads |-> 0,
     negotiationLeads |-> 0, creditAnalysisLeads |-> 0, approvedLeads |-> 0,
     signedLeads |-> 1]

InitialLeadsInputs == {0, 100}
GoalInputs == {5}

\* entries per broker explored in the dashboard specification
MaxEntries == 3

-----------------------------------------------------------------------------
(* BrokerDashboard: the state of the daily form, the delete dialog and the *)
(* bulk edit. A value of type number | '' is <<>> for '' and <<n>> for n.  *)

\* new Date().toISOString().split('T')[0] when the dashboard mounts
Today == D2

\* the dashboard's state does not exist while BrokerManagement is shown
NoForm == <<>>

\* {} as the value of errors, bulkErrors and bulkDailyData
EmptyObject == [k \in {} |-> TRUE]

\* a load that takes the entry from the history list on the screen
LoadEntryFromHistory(f, profile) ==
    LET history == entriesWithCalculatedBalances(profile)
        found == FirstOf({k \in 1..Len(history) : history[k].date = f.selectedDate})
    IN  IF found > 0
        THEN LET existingEntry == history[found]
                 formData == [k \in (DOMAIN existingEntry) \ {"date"} |-> existingEntry[k]]
             IN  [f EXCEPT !.errors = EmptyObject,
                           !.dailyData = Spread(initialState, formData)]
        ELSE [f EXCEPT !.errors = EmptyObject, !.dailyData = initialState]

\* the effect on [selectedDate, profile.dailyEntries]: the entry of the
\* selected date, if any, is loaded into the form
LoadEntry(f, profile) ==
    LET dailyEntries == profile.dailyEntries
        found == FirstOf({k \in 1..Len(dailyEntries) : dailyEntries[k].date = f.selectedDate})
    IN  IF found > 0
        THEN LET existingEntry == dailyEntries[found]
                 formData == [k \in (DOMAIN existingEntry) \ {"date"} |-> existingEntry[k]]
             IN  [f EXCEPT !.errors = EmptyObject,
                           !.dailyData = Spread(initialState, formData)]
        ELSE [f EXCEPT !.errors = EmptyObject, !.dailyData = initialState]

\* the useState initial values, then the first run of the effect
MountedForm(profile) ==
    LoadEntry([dailyData |-> initialState,
               selectedDate |-> Today,
               errors |-> EmptyObject,
               dateToDelete |-> <<>>,
               showBulkEditModal |-> FALSE,
               bulkStartDate |-> Today,
               bulkEndDate |-> Today,
               bulkDailyData |-> EmptyObject,
               bulkErrors |-> EmptyObject,
               isGeneratingPdf |-> FALSE],
              profile)

\* the page with no report being rendered
NoExport == [exportMode |-> FALSE, renders |-> 0]

\* Object.values(errors).some(isError => isError)
HasActiveErrors(errors) == \E k \in DOMAIN errors : errors[k]

Digits == <<"0", "1", "2", "3", "4", "5", "6", "7", "8", "9">>
IsDigit(c) == \E d \in 1..10 : Digits[d] = c
DigitValue(c) == (CHOOSE d \in 1..10 : Digits[d] = c) - 1

RECURSIVE LeadingDigits(_)
\* the digits a text starts with
LeadingDigits(text) ==
    IF text = <<>> \/ ~IsDigit(text[1]) THEN <<>>
    ELSE <<text[1]>> \o LeadingDigits(Tail(text))

RECURSIVE DecimalValue(_)
DecimalValue(digits) ==
    IF digits = <<>> THEN 0
    ELSE 10 * DecimalValue(SubSeq(digits, 1, Len(digits) - 1)) + DigitValue(digits[Len(digits)])

\* NaN is written as an integer that no text and no sum of the model yields;
\* the operators below treat it as JavaScript treats NaN
NaN == -1000000

\* value < 0, which is false of NaN
LessThanZero(value) == value # NaN /\ value < 0

\* value >= 0, which is false of NaN
AtLeastZero(value) == value # NaN /\ value >= 0

\* parseInt(val, 10): the sign and the leading digits, whatever follows them;
\* -0 and 0 are one value, which no test the handlers make tells apart
parseInt(val) ==
    LET minus == val # <<>> /\ val[1] = "-"
        digits == LeadingDigits(IF minus THEN Tail(val) ELSE val)
    IN  IF digits = <<>> THEN NaN
        ELSE IF minus THEN 0 - DecimalValue(digits) ELSE DecimalValue(digits)

\* NumberInput's onChange: val === '' ? '' : parseInt(val, 10)
InputValue(val) == IF val = <<>> THEN <<>> ELSE <<parseInt(val)>>

\* Math.max(0, value)
MaxZero(value) == IF value = NaN THEN NaN ELSE IF value < 0 THEN 0 ELSE value

\* the day after a date
DaysInMonth(year, month) ==
    IF month = 2
    THEN (IF year % 4 = 0 /\ (year % 100 # 0 \/ year % 400 = 0) THEN 29 ELSE 28)
    ELSE IF month \in {4, 6, 9, 11} THEN 30 ELSE 31

\* currentDate.setDate(currentDate.getDate() + 1)
NextDay(date) ==
    IF date[3] < DaysInMonth(date[1], date[2]) THEN <<date[1], date[2], date[3] + 1>>
    ELSE IF date[2] < 12 THEN <<date[1], date[2] + 1, 1>>
    ELSE <<date[1] + 1, 1, 1>>

\* the day before a date
PrevDay(date) ==
    IF date[3] > 1 THEN <<date[1], date[2], date[3] - 1>>
    ELSE IF date[2] > 1 THEN <<date[1], date[2] - 1, DaysInMonth(date[1], date[2] - 1)>>
    ELSE <<date[1] - 1, 12, 31>>

\* currentDate.toISOString().split('T')[0] of the local midnight of a day: the
\* UTC date of that instant, which is the day before in a time zone east of
\* UTC and the same day in UTC and west of it
toISODate(localDay, eastOfUTC) ==
    IF eastOfUTC THEN PrevDay(localDay) ELSE localDay

RECURSIVE DaysFromTo(_, _)
\* the local days the loop of handleBulkSave visits: none when a bound is not
\* a date (a comparison with an Invalid Date is false)
DaysFromTo(startDate, endDate) ==
    IF startDate = EmptyDate \/ endDate = EmptyDate \/ DateLess(endDate, startDate)
    THEN <<>>
    ELSE <<startDate>> \o DaysFromTo(NextDay(startDate), endDate)

-----------------------------------------------------------------------------
(* JSON documents: values carry their type; a text is a record saying       *)
(* whether JSON.parse accepts it and, if so, the value it yields            *)

JStr(s) == [type |-> "string", val |-> s]
JNum(n) == [type |-> "number", val |-> n]
JArr(items) == [type |-> "array", items |-> items]
JObj(fields) == [type |-> "object", fields |-> fields]
JNull == [type |-> "null"]

\* typeof item[key]
TypeOfProp(item, key) ==
    IF item.type = "object" /\ key \in DOMAIN item.fields
    THEN item.fields[key].type
    ELSE "undefined"

\* reading a property of null throws a TypeError
ThrowsOnRead(item) == item.type = "null"

\* the validation reduced to Array.isArray(data)
isValidArrayOnly(data) == data.type = "array"

\* Array.isArray(data) && data.every(item => typeof item.brokerName === 'string'
\*   && typeof item.initialLeads === 'number' && Array.isArray(item.dailyEntries))
isValid(data) ==
    /\ data.type = "array"
    /\ \A i \in 1..Len(data.items) :
         /\ TypeOfProp(data.items[i], "brokerName") = "string"
         /\ TypeOfProp(data.items[i], "initialLeads") = "number"
         /\ TypeOfProp(data.items[i], "dailyEntries") = "array"

\* every() stops at the first item that fails; a null item met before that throws
ValidationThrows(data) ==
    /\ data.type = "array"
    /\ \E i \in 1..Len(data.items) :
         /\ ThrowsOnRead(data.items[i])
         /\ isValid(JArr(SubSeq(data.items, 1, i - 1)))

\* the parsed value as the store holds it
RECURSIVE Plain(_)
Plain(json) ==
    CASE json.type = "array" -> [i \in 1..Len(json.items) |-> Plain(json.items[i])]
      [] json.type = "object" -> [k \in DOMAIN json.fields |-> Plain(json.fields[k])]
      [] json.type = "null" -> <<>>
      [] OTHER -> json.val

\* JSON.stringify of a number: NaN is written as null
JNumber(n) == IF n = NaN THEN JNull ELSE JNum(n)

\* JSON.parse(JSON.stringify(value)) of store contents
JEntry(entry) == JObj([k \in DOMAIN entry |->
                        IF k = "date" THEN JStr(entry[k]) ELSE JNumber(entry[k])])

JProfile(profile) ==
    JObj([k \in DOMAIN profile |->
            CASE k = "brokerName" -> JStr(profile[k])
              [] k = "dailyEntries" ->
                   JArr([i \in 1..Len(profile[k]) |-> JEntry(profile[k][i])])
              [] OTHER -> JNumber(profile[k])])

JStore(list) == JArr([i \in 1..Len(list) |-> JProfile(list[i])])

\* JSON.stringify(brokers)
stringify(list) == [parses |-> TRUE, data |-> JStore(list)]

-----------------------------------------------------------------------------
(* App: the broker store *)

Report(handler, result) == [handler |-> handler, result |-> result]

\* a startup that never reads the item
getInitialBrokersIgnoringItem(item) == <<>>

\* getInitialBrokers: the stored array, or [] when the item is missing, does
\* not parse or is not an array
getInitialBrokers(item) ==
    IF item = <<>> THEN <<>>
    ELSE IF ~item[1].parses THEN <<>>
    ELSE IF item[1].data.type = "array" THEN Plain(item[1].data)
    ELSE <<>>

\* no save effect at all
saveNothing == UNCHANGED <<storage, storageFull>>

\* useEffect(() => { try { localStorage.setItem(key, JSON.stringify(brokers)) }
\* catch { console.error } }, [brokers]), run after a render with a new array
saveEffect ==
    /\ storage' = IF storageFull THEN storage ELSE <<stringify(brokers')>>
    /\ UNCHANGED storageFull

\* the check with the case folding left out
NameTakenExactly(list, name) ==
    \E i \in 1..Len(list) : list[i].brokerName = name

\* brokers.some(b => b.brokerName.toLowerCase() === name.toLowerCase())
NameTaken(list, name) ==
    \E i \in 1..Len(list) : toLowerCase(list[i].brokerName) = toLowerCase(name)

NewBroker(brokerName, initialLeads, monthlySalesGoal) ==
    [brokerName |-> brokerName, initialLeads |-> initialLeads,
     monthlySalesGoal |-> monthlySalesGoal, dailyEntries |-> <<>>]

handleAddBroker(brokerName, initialLeads, monthlySalesGoal) ==
    /\ IF NameTaken(brokers, brokerName)
       THEN /\ lastCall' = Report("handleAddBroker", "alert: duplicate name")
            /\ UNCHANGED <<brokers, storage, storageFull>>
       ELSE /\ brokers' = Append(brokers, NewBroker(brokerName, initialLeads, monthlySalesGoal))
            /\ saveEffect
            /\ lastCall' = Report("handleAddBroker", "added")
    /\ UNCHANGED <<selectedBroker, selectedMonth, pendingFile, pdfExport>>

\* the duplicate check of handleUpdateBroker
UpdateRejected(list, originalName, newName) ==
    /\ toLowerCase(originalName) # toLowerCase(newName)
    /\ NameTaken(list, newName)

\* the map with the matched profile rebuilt from updatedData alone
UpdatedBrokersWithoutEntries(prevBrokers, originalName, updatedData) ==
    [i \in 1..Len(prevBrokers) |->
        IF prevBrokers[i].brokerName = originalName
        THEN Spread([dailyEntries |-> <<>>], updatedData)
        ELSE prevBrokers[i]]

\* prevBrokers.map(broker => broker.brokerName === originalName
\*                           ? { ...broker, ...updatedData } : broker)
UpdatedBrokers(prevBrokers, originalName, updatedData) ==
    [i \in 1..Len(prevBrokers) |->
        IF prevBrokers[i].brokerName = originalName
        THEN Spread(prevBrokers[i], updatedData)
        ELSE prevBrokers[i]]

\* list.find(b => b.brokerName === name): <<>> when none
FindBroker(list, name) ==
    LET i == FirstOf({k \in 1..Len(list) : list[k].brokerName = name})
    IN  IF i = 0 THEN <<>> ELSE <<list[i]>>

handleUpdateBroker(originalName, updatedData) ==
    IF UpdateRejected(brokers, originalName, updatedData.brokerName)
    THEN /\ lastCall' = Report("handleUpdateBroker", "alert: duplicate name, false")
         /\ UNCHANGED <<brokers, selectedBroker, selectedMonth, pendingFile, pdfExport, storage, storageFull>>
    ELSE LET newBrokers == UpdatedBrokers(brokers, originalName, updatedData)
             updatedSelected == FindBroker(newBrokers, updatedData.brokerName)
         IN  /\ brokers' = newBrokers
             /\ saveEffect
             /\ selectedBroker' =
                    IF /\ selectedBroker # <<>>
                       /\ selectedBroker[1].brokerName = originalName
                       /\ updatedSelected # <<>>
                    THEN updatedSelected
                    ELSE selectedBroker
             /\ lastCall' = Report("handleUpdateBroker", "true")
             /\ UNCHANGED <<selectedMonth, pendingFile, pdfExport>>

\* a delete that matches the name the way the duplicate check does
handleDeleteBrokerIgnoringCase(brokerNameToDelete, confirmed) ==
    IF ~confirmed
    THEN /\ lastCall' = Report("handleDeleteBroker", "declined")
         /\ UNCHANGED <<brokers, selectedBroker, selectedMonth, pendingFile, pdfExport, storage, storageFull>>
    ELSE LET Kept(broker) ==
                 toLowerCase(broker.brokerName) # toLowerCase(brokerNameToDelete)
         IN  /\ brokers' = SelectSeq(brokers, Kept)
             /\ saveEffect
             /\ lastCall' = Report("handleDeleteBroker", "deleted")
             /\ UNCHANGED <<selectedBroker, selectedMonth, pendingFile, pdfExport>>

handleDeleteBroker(brokerNameToDelete, confirmed) ==
    IF ~confirmed
    THEN /\ lastCall' = Report("handleDeleteBroker", "declined")
         /\ UNCHANGED <<brokers, selectedBroker, selectedMonth, pendingFile, pdfExport, storage, storageFull>>
    ELSE LET Kept(broker) == broker.brokerName # brokerNameToDelete
             deselect == selectedBroker # <<>>
                         /\ selectedBroker[1].brokerName = brokerNameToDelete
         IN  /\ brokers' = SelectSeq(brokers, Kept)
             /\ saveEffect
             /\ selectedBroker' = IF deselect THEN <<>> ELSE selectedBroker
             /\ selectedMonth' = IF deselect THEN NoMonth ELSE selectedMonth
             /\ lastCall' = Report("handleDeleteBroker", "deleted")
             /\ UNCHANGED <<pendingFile, pdfExport>>

\* useState({ key: 'totalSales', direction: 'descending' })
DefaultSort == [key |-> "totalSales", direction |-> "descending"]

\* BrokerDashboard mounts when a broker becomes selected and BrokerManagement
\* when none is: a component that mounts starts from its initial state
handleSelectBroker(brokerName) ==
    LET broker == FindBroker(brokers, brokerName)
    IN  /\ selectedBroker' = IF broker # <<>> THEN broker ELSE selectedBroker
        /\ selectedMonth' = IF broker # <<>> THEN CurrentMonth ELSE selectedMonth
        /\ lastCall' = Report("handleSelectBroker",
                              IF broker # <<>> THEN "selected" ELSE "not found")
        /\ sortConfig' = DefaultSort
        /\ form' = IF broker # <<>> THEN MountedForm(broker[1]) ELSE form
        /\ UNCHANGED <<brokers, editingBroker, pendingFile, pdfExport, storage, storageFull>>

handleSwitchBroker ==
    /\ selectedBroker' = <<>>
    /\ selectedMonth' = NoMonth
    /\ lastCall' = Report("handleSwitchBroker", "management")
    /\ sortConfig' = DefaultSort
    /\ form' = NoForm
    /\ UNCHANGED <<brokers, editingBroker, pendingFile, pdfExport, storage, storageFull>>

\* an upsert that never looks for the date
UpsertEntryAppending(dailyEntries, entry) == Append(dailyEntries, entry)

\* the upsert of handleSaveEntry on one broker's entries
UpsertEntry(dailyEntries, entry) ==
    LET existingIndex ==
            FirstOf({k \in 1..Len(dailyEntries) : dailyEntries[k].date = entry.date})
    IN  IF existingIndex > 0
        THEN [dailyEntries EXCEPT ![existingIndex] = entry]
        ELSE Append(dailyEntries, entry)

\* a delete that drops the last entry whatever its date
RemoveLastEntry(dailyEntries, date) ==
    SubSeq(dailyEntries, 1, Len(dailyEntries) - 1)

\* the filter of handleDeleteEntry on one broker's entries
RemoveEntry(dailyEntries, date) ==
    LET OtherDate(e) == e.date # date
    IN  SelectSeq(dailyEntries, OtherDate)

\* prevBrokers.map(...) of handleSaveEntry / handleDeleteEntry: every broker
\* named like the selected one gets its updated entries (updatedEntries[i]
\* for the broker at i)
MapSelected(prevBrokers, name, updatedEntries) ==
    [i \in 1..Len(prevBrokers) |->
        IF prevBrokers[i].brokerName = name
        THEN [prevBrokers[i] EXCEPT !.dailyEntries = updatedEntries[i]]
        ELSE prevBrokers[i]]

\* setSelectedBroker(updatedBroker) runs inside the map: the last match stays
LastNamed(list, name, fallback) ==
    LET hits == {i \in 1..Len(list) : list[i].brokerName = name}
    IN  IF hits = {} THEN fallback
        ELSE <<list[CHOOSE i \in hits : \A j \in hits : j <= i]>>

handleSaveEntry(entry) ==
    IF selectedBroker = <<>>
    THEN /\ lastCall' = Report("handleSaveEntry", "no broker selected")
         /\ UNCHANGED <<brokers, selectedBroker, selectedMonth, editingBroker, sortConfig, form, pendingFile, pdfExport, storage, storageFull>>
    ELSE LET updatedEntries ==
                 [i \in 1..Len(brokers) |-> UpsertEntry(brokers[i].dailyEntries, entry)]
             name == selectedBroker[1].brokerName
             newBrokers == MapSelected(brokers, name, updatedEntries)
         IN  /\ brokers' = newBrokers
             /\ saveEffect
             /\ selectedBroker' = LastNamed(newBrokers, name, selectedBroker)
             /\ form' = LoadEntry(form, selectedBroker'[1])
             /\ lastCall' = Report("handleSaveEntry", "saved")
             /\ UNCHANGED <<selectedMonth, editingBroker, sortConfig, pendingFile, pdfExport>>

handleDeleteEntry(date) ==
    IF selectedBroker = <<>>
    THEN /\ lastCall' = Report("handleDeleteEntry", "no broker selected")
         /\ UNCHANGED <<brokers, selectedBroker, selectedMonth, editingBroker, sortConfig, form, pendingFile, pdfExport, storage, storageFull>>
    ELSE LET updatedEntries ==
                 [i \in 1..Len(brokers) |-> RemoveEntry(brokers[i].dailyEntries, date)]
             name == selectedBroker[1].brokerName
             newBrokers == MapSelected(brokers, name, updatedEntries)
         IN  /\ brokers' = newBrokers
             /\ saveEffect
             /\ selectedBroker' = LastNamed(newBrokers, name, selectedBroker)
             /\ form' = LoadEntry(form, selectedBroker'[1])
             /\ lastCall' = Report("handleDeleteEntry", "deleted")
             /\ UNCHANGED <<selectedMonth, editingBroker, sortConfig, pendingFile, pdfExport>>

\* <input type="month" onChange={e => setSelectedMonth(e.target.value)}>
setSelectedMonth(month) ==
    /\ selectedMonth' = month
    /\ lastCall' = Report("setSelectedMonth", "set")
    /\ UNCHANGED <<brokers, selectedBroker, editingBroker, sortConfig, form, pendingFile, pdfExport, storage, storageFull>>

-----------------------------------------------------------------------------
(* BrokerDashboard: the CSV export *)

fieldOrder ==
    <<"newLeads", "discardedLeads", "repiqueLeads", "localVisits", "contactingLeads",
      "inProgressLeads", "scheduledLeads", "negotiationLeads", "creditAnalysisLeads",
      "approvedLeads", "signedLeads">>

\* new Date(date + 'T00:00:00').toLocaleDateString('pt-BR'): day, month, year
toLocaleDateString(date) ==
    IF date = EmptyDate THEN <<"Invalid Date">> ELSE <<date[3], date[2], date[1]>>

\* rowData of one entry of the projection, before join(',')
CsvRow(entry) ==
    <<toLocaleDateString(entry.date), entry.startOfDayBalance>>
      \o [i \in 1..Len(fieldOrder) |->
            IF fieldOrder[i] \in DOMAIN entry THEN entry[fieldOrder[i]] ELSE 0]
      \o <<entry.endOfDayBalance>>

\* an export that keeps the order of the history list, newest first
CsvRowsNewestFirst(profile) ==
    LET listed == entriesWithCalculatedBalances(profile)
    IN  [i \in 1..Len(listed) |-> CsvRow(listed[i])]

\* rows of handleGenerateCsv
CsvRows(profile) ==
    LET chronologicalEntries == Reverse(entriesWithCalculatedBalances(profile))
    IN  [i \in 1..Len(chronologicalEntries) |-> CsvRow(chronologicalEntries[i])]

handleGenerateCsv ==
    /\ lastCall' = Report("handleGenerateCsv",
                          IF selectedBroker[1].dailyEntries = <<>>
                          THEN "alert: nothing to export"
                          ELSE "downloaded")
    /\ UNCHANGED <<brokers, selectedBroker, selectedMonth, editingBroker, sortConfig, form,
                   pendingFile, pdfExport, storage, storageFull>>

-----------------------------------------------------------------------------
(* BrokerDashboard: the daily form, the delete dialog and the bulk edit *)

\* <input type="date" onChange={e => setSelectedDate(e.target.value)}>: the
\* load effect runs when the date changed
setSelectedDate(date) ==
    /\ form' = IF date = form.selectedDate THEN form
               ELSE LoadEntry([form EXCEPT !.selectedDate = date], selectedBroker[1])
    /\ lastCall' = Report("setSelectedDate", "set")
    /\ UNCHANGED <<brokers, selectedBroker, selectedMonth, editingBroker, sortConfig, pendingFile, pdfExport,
                   storage, storageFull>>

\* handleEditClick of an entry of the history list
BrokerDashboard_handleEditClick(entry) ==
    /\ form' = IF entry.date = form.selectedDate THEN form
               ELSE LoadEntry([form EXCEPT !.selectedDate = entry.date], selectedBroker[1])
    /\ lastCall' = Report("handleEditClick", "editing entry")
    /\ UNCHANGED <<brokers, selectedBroker, selectedMonth, editingBroker, sortConfig, pendingFile, pdfExport,
                   storage, storageFull>>

handleNumberChange(field, value) ==
    LET negative == value # <<>> /\ LessThanZero(value[1])
        sanitized == IF value = <<>> THEN 0 ELSE MaxZero(value[1])
    IN  /\ form' = [form EXCEPT !.errors = Spread(@, field :> negative),
                                !.dailyData = Spread(@, field :> sanitized)]
        /\ lastCall' = Report("handleNumberChange", IF negative THEN "flagged" ELSE "accepted")
        /\ UNCHANGED <<brokers, selectedBroker, selectedMonth, editingBroker, sortConfig, pendingFile, pdfExport,
                   storage, storageFull>>

handleBulkNumberChange(field, value) ==
    LET negative == value # <<>> /\ LessThanZero(value[1])
    IN  /\ form' = [form EXCEPT !.bulkErrors = Spread(@, field :> negative),
                                !.bulkDailyData = Spread(@, field :> value)]
        /\ lastCall' = Report("handleBulkNumberChange",
                              IF negative THEN "flagged" ELSE "accepted")
        /\ UNCHANGED <<brokers, selectedBroker, selectedMonth, editingBroker, sortConfig, pendingFile, pdfExport,
                   storage, storageFull>>

\* the daily form's onSubmit
handleSubmit ==
    IF HasActiveErrors(form.errors)
    THEN /\ lastCall' = Report("handleSubmit", "alert: has errors")
         /\ UNCHANGED <<brokers, selectedBroker, selectedMonth, editingBroker, sortConfig, form,
                        pendingFile, pdfExport, storage, storageFull>>
    ELSE handleSaveEntry(EntryOf(form.dailyData, form.selectedDate))

\* setDateToDelete(entry.date) / setDateToDelete(null)
setDateToDelete(dateOrNull) ==
    /\ form' = [form EXCEPT !.dateToDelete = dateOrNull]
    /\ lastCall' = Report("setDateToDelete", IF dateOrNull = <<>> THEN "closed" ELSE "asked")
    /\ UNCHANGED <<brokers, selectedBroker, selectedMonth, editingBroker, sortConfig, pendingFile, pdfExport,
                   storage, storageFull>>

\* confirmDelete: onDeleteEntry(dateToDelete), setDateToDelete(null), then
\* the load effect
confirmDelete ==
    IF form.dateToDelete = <<>>
    THEN /\ lastCall' = Report("confirmDelete", "nothing to delete")
         /\ UNCHANGED <<brokers, selectedBroker, selectedMonth, editingBroker, sortConfig, form,
                        pendingFile, pdfExport, storage, storageFull>>
    ELSE LET date == form.dateToDelete[1]
             updatedEntries ==
                 [i \in 1..Len(brokers) |-> RemoveEntry(brokers[i].dailyEntries, date)]
             name == selectedBroker[1].brokerName
             newBrokers == MapSelected(brokers, name, updatedEntries)
         IN  /\ brokers' = newBrokers
             /\ saveEffect
             /\ selectedBroker' = LastNamed(newBrokers, name, selectedBroker)
             /\ form' = LoadEntry([form EXCEPT !.dateToDelete = <<>>], selectedBroker'[1])
             /\ lastCall' = Report("confirmDelete", "deleted")
             /\ UNCHANGED <<selectedMonth, editingBroker, sortConfig, pendingFile, pdfExport>>

\* setShowBulkEditModal(true)
openBulkEdit ==
    /\ form' = [form EXCEPT !.showBulkEditModal = TRUE]
    /\ lastCall' = Report("setShowBulkEditModal", "opened")
    /\ UNCHANGED <<brokers, selectedBroker, selectedMonth, editingBroker, sortConfig, pendingFile, pdfExport,
                   storage, storageFull>>

\* the bulk edit's Cancelar
cancelBulkEdit ==
    /\ form' = [form EXCEPT !.showBulkEditModal = FALSE,
                            !.bulkDailyData = EmptyObject,
                            !.bulkErrors = EmptyObject]
    /\ lastCall' = Report("setShowBulkEditModal", "cancelled")
    /\ UNCHANGED <<brokers, selectedBroker, selectedMonth, editingBroker, sortConfig, pendingFile, pdfExport,
                   storage, storageFull>>

setBulkStartDate(date) ==
    /\ form' = [form EXCEPT !.bulkStartDate = date]
    /\ lastCall' = Report("setBulkStartDate", "set")
    /\ UNCHANGED <<brokers, selectedBroker, selectedMonth, editingBroker, sortConfig, pendingFile, pdfExport,
                   storage, storageFull>>

setBulkEndDate(date) ==
    /\ form' = [form EXCEPT !.bulkEndDate = date]
    /\ lastCall' = Report("setBulkEndDate", "set")
    /\ UNCHANGED <<brokers, selectedBroker, selectedMonth, editingBroker, sortConfig, pendingFile, pdfExport,
                   storage, storageFull>>

\* typeof bulkDailyData[field] === 'number' ? bulkDailyData[field]
\*                                           : (existingEntry?.[field] ?? 0)
BulkField(bulkDailyData, existingEntry, field) ==
    IF field \in DOMAIN bulkDailyData /\ bulkDailyData[field] # <<>>
    THEN bulkDailyData[field][1]
    ELSE IF existingEntry # <<>> /\ field \in DOMAIN existingEntry[1]
         THEN existingEntry[1][field]
         ELSE 0

\* updatedEntry of handleBulkSave for one day
BulkEntry(dateString, dailyEntries, bulkDailyData) ==
    LET found == FirstOf({k \in 1..Len(dailyEntries) : dailyEntries[k].date = dateString})
        existingEntry == IF found > 0 THEN <<dailyEntries[found]>> ELSE <<>>
    IN  [k \in (DOMAIN initialState) \cup {"date"} |->
            IF k = "date" THEN dateString ELSE BulkField(bulkDailyData, existingEntry, k)]

RECURSIVE SaveAll(_, _, _)
\* onSaveEntry called once per entry: the updates of setBrokers apply in turn
SaveAll(prevBrokers, name, entries) ==
    IF entries = <<>> THEN prevBrokers
    ELSE LET updatedEntries ==
                 [i \in 1..Len(prevBrokers) |->
                     UpsertEntry(prevBrokers[i].dailyEntries, entries[1])]
         IN  SaveAll(MapSelected(prevBrokers, name, updatedEntries), name, Tail(entries))

\* the bulk edit's onSubmit, in a browser whose time zone is east of UTC or not
handleBulkSave(eastOfUTC) ==
    IF /\ form.bulkStartDate # EmptyDate /\ form.bulkEndDate # EmptyDate
       /\ DateLess(form.bulkEndDate, form.bulkStartDate)
    THEN /\ lastCall' = Report("handleBulkSave", "alert: start after end")
         /\ UNCHANGED <<brokers, selectedBroker, selectedMonth, editingBroker, sortConfig, form,
                        pendingFile, pdfExport, storage, storageFull>>
    ELSE IF HasActiveErrors(form.bulkErrors)
    THEN /\ lastCall' = Report("handleBulkSave", "alert: has errors")
         /\ UNCHANGED <<brokers, selectedBroker, selectedMonth, editingBroker, sortConfig, form,
                        pendingFile, pdfExport, storage, storageFull>>
    ELSE LET days == DaysFromTo(form.bulkStartDate, form.bulkEndDate)
             entries == [i \in 1..Len(days) |->
                            BulkEntry(toISODate(days[i], eastOfUTC),
                                      selectedBroker[1].dailyEntries,
                                      form.bulkDailyData)]
             name == selectedBroker[1].brokerName
             newBrokers == SaveAll(brokers, name, entries)
             closed == [form EXCEPT !.showBulkEditModal = FALSE,
                                    !.bulkDailyData = EmptyObject,
                                    !.bulkErrors = EmptyObject]
         IN  /\ lastCall' = Report("handleBulkSave", "alert: saved")
             /\ UNCHANGED <<selectedMonth, editingBroker, sortConfig, pendingFile, pdfExport>>
             /\ IF days = <<>>
                THEN /\ form' = closed
                     /\ UNCHANGED <<brokers, selectedBroker, storage, storageFull>>
                ELSE /\ brokers' = newBrokers
                     /\ saveEffect
                     /\ selectedBroker' = LastNamed(newBrokers, name, selectedBroker)
                     /\ form' = LoadEntry(closed, selectedBroker'[1])

-----------------------------------------------------------------------------
(* BrokerManagement: the add form and the edit modal *)

\* Number(value) || 0 of a number | '' value
NumberOrZero(value) == IF value = <<>> \/ value[1] = NaN THEN 0 ELSE value[1]

\* handleSubmit of BrokerManagement; initialLeads and monthlySalesGoal are
\* number | '' values
BrokerManagement_handleSubmit(brokerName, initialLeads, monthlySalesGoal) ==
    /\ UNCHANGED <<editingBroker, sortConfig, form>>
    /\ IF trim(brokerName) # <<>> /\ initialLeads # <<>> /\ AtLeastZero(initialLeads[1])
       THEN handleAddBroker(brokerName, initialLeads[1], NumberOrZero(monthlySalesGoal))
       ELSE /\ lastCall' = Report("BrokerManagement.handleSubmit", "ignored")
            /\ UNCHANGED <<brokers, selectedBroker, selectedMonth, pendingFile, pdfExport, storage, storageFull>>

handleEditClick(broker) ==
    /\ editingBroker' = <<broker>>
    /\ UNCHANGED <<sortConfig, form>>
    /\ lastCall' = Report("handleEditClick", "modal open")
    /\ UNCHANGED <<brokers, selectedBroker, selectedMonth, pendingFile, pdfExport, storage, storageFull>>

handleCloseModal ==
    /\ editingBroker' = <<>>
    /\ UNCHANGED <<sortConfig, form>>
    /\ lastCall' = Report("handleCloseModal", "modal closed")
    /\ UNCHANGED <<brokers, selectedBroker, selectedMonth, pendingFile, pdfExport, storage, storageFull>>

\* editedInitialLeads and editedMonthlySalesGoal are number | '' values
handleSaveChanges(editedName, editedInitialLeads, editedMonthlySalesGoal) ==
    IF editingBroker = <<>> \/ trim(editedName) = <<>> \/ editedInitialLeads = <<>>
    THEN /\ lastCall' = Report("handleSaveChanges", "ignored")
         /\ UNCHANGED <<brokers, selectedBroker, selectedMonth, editingBroker, sortConfig, form, pendingFile, pdfExport, storage, storageFull>>
    ELSE /\ handleUpdateBroker(editingBroker[1].brokerName,
                               [brokerName |-> trim(editedName),
                                initialLeads |-> editedInitialLeads[1],
                                monthlySalesGoal |-> NumberOrZero(editedMonthlySalesGoal)])
         /\ editingBroker' = IF lastCall'.result = "true" THEN <<>> ELSE editingBroker
         /\ UNCHANGED <<sortConfig, form>>

handleDelete(confirmed) ==
    IF editingBroker = <<>>
    THEN /\ lastCall' = Report("handleDelete", "ignored")
         /\ UNCHANGED <<brokers, selectedBroker, selectedMonth, editingBroker, sortConfig, form, pendingFile, pdfExport, storage, storageFull>>
    ELSE /\ handleDeleteBroker(editingBroker[1].brokerName, confirmed)
         /\ editingBroker' = <<>>
         /\ UNCHANGED <<sortConfig, form>>

-----------------------------------------------------------------------------
(* Backup import: JSON values carry their type *)

\* Files a user may pick
FileBackup ==
    [parses |-> TRUE,
     data |-> JStore(<<[brokerName |-> Bob, initialLeads |-> 100, monthlySalesGoal |-> 5,
                        dailyEntries |-> <<EntryOf(FormA, D2)>>]>>)]

FileSameNames ==
    [parses |-> TRUE,
     data |-> JStore(<<[brokerName |-> Ana, initialLeads |-> 0, dailyEntries |-> <<>>],
                       [brokerName |-> ana, initialLeads |-> 100, dailyEntries |-> <<>>]>>)]

FileSameDates ==
    [parses |-> TRUE,
     data |-> JStore(<<[brokerName |-> Bob, initialLeads |-> 0,
                        dailyEntries |-> <<EntryOf(FormA, D2), EntryOf(FormB, D2)>>]>>)]

FileOfStrings ==
    [parses |-> TRUE, data |-> JArr(<<JStr(Ana), JStr(Bob)>>)]

\* a well-formed profile followed by null
FileWithNull ==
    [parses |-> TRUE,
     data |-> JArr(<<JProfile([brokerName |-> Bob, initialLeads |-> 100,
                               dailyEntries |-> <<>>]), JNull>>)]

\* a single profile object, not wrapped in an array
FileNotArray ==
    [parses |-> TRUE,
     data |-> JProfile([brokerName |-> Bob, initialLeads |-> 100, dailyEntries |-> <<>>])]

\* text that JSON.parse rejects
FileUnparsable == [parses |-> FALSE, data |-> JNull]

ImportFiles ==
    {FileBackup, FileSameNames, FileSameDates,
     FileOfStrings, FileWithNull, FileNotArray, FileUnparsable}

\* JSON.stringify(brokers, null, 2): the indentation is white space, which
\* JSON.parse skips
ExportedDocument(list) == stringify(list)

\* handleExportData: the document goes to a download, nothing of the
\* application changes
handleExportData ==
    /\ lastCall' = Report("handleExportData",
                          IF Len(brokers) = 0 THEN "alert: nothing to export"
                          ELSE "downloaded")
    /\ UNCHANGED <<brokers, selectedBroker, selectedMonth, editingBroker, sortConfig, form, pendingFile, pdfExport, storage, storageFull>>

\* one FileReader in flight at a time
handleFileChange(file) ==
    /\ pendingFile = <<>>
    /\ pendingFile' = <<file>>
    /\ UNCHANGED pdfExport
    /\ lastCall' = Report("handleFileChange", "reading")
    /\ UNCHANGED <<brokers, selectedBroker, selectedMonth, editingBroker, sortConfig, form, storage, storageFull>>

\* a restore that appends the imported profiles to the stored ones
handleRestoreBrokersMerging(restoredBrokers) ==
    /\ brokers' = brokers \o restoredBrokers
    /\ saveEffect
    /\ lastCall' = Report("handleRestoreBrokers", "alert: restored")

handleRestoreBrokers(restoredBrokers) ==
    /\ brokers' = restoredBrokers
    /\ saveEffect
    /\ lastCall' = Report("handleRestoreBrokers", "alert: restored")

\* reader.onload
readerOnload(confirmed) ==
    /\ pendingFile # <<>>
    /\ pendingFile' = <<>>
    /\ UNCHANGED pdfExport
    /\ UNCHANGED <<selectedBroker, selectedMonth, editingBroker, sortConfig, form>>
    /\ LET file == pendingFile[1]
       IN  IF ~file.parses \/ ValidationThrows(file.data) \/ ~isValid(file.data)
           THEN /\ lastCall' = Report("reader.onload", "alert: import failed")
                /\ UNCHANGED <<brokers, storage, storageFull>>
           ELSE IF confirmed
                THEN handleRestoreBrokers(Plain(file.data))
                ELSE /\ lastCall' = Report("reader.onload", "declined")
                     /\ UNCHANGED <<brokers, storage, storageFull>>

-----------------------------------------------------------------------------
(* The application *)

ManagementShown == selectedBroker = <<>>
DashboardShown == selectedBroker # <<>>
\* the edit modal covers the management screen
ModalOpen == editingBroker # <<>>

\* entries the dashboard of the store specification submits
StoreDates == {D2}

Init ==
    /\ brokers = <<>>
    /\ selectedBroker = <<>>
    /\ selectedMonth = NoMonth
    /\ editingBroker = <<>>
    /\ sortConfig = DefaultSort
    /\ form = NoForm
    /\ pendingFile = <<>>
    /\ pdfExport = NoExport
    /\ storage = <<stringify(<<>>)>>
    /\ storageFull = FALSE
    /\ lastCall = Report("App", "mounted")

AddBroker ==
    /\ ManagementShown /\ ~ModalOpen
    /\ \E name \in NameInputs, initialLeads \in InitialLeadsInputs, goal \in GoalInputs :
         BrokerManagement_handleSubmit(name, <<initialLeads>>, <<goal>>)

EditClick ==
    /\ ManagementShown /\ ~ModalOpen
    /\ \E i \in 1..Len(brokers) : handleEditClick(brokers[i])

SaveChanges ==
    /\ ManagementShown /\ ModalOpen
    /\ \E name \in EditedNameInputs, initialLeads \in InitialLeadsInputs, goal \in GoalInputs :
         handleSaveChanges(name, <<initialLeads>>, <<goal>>)

Delete ==
    /\ ManagementShown /\ ModalOpen
    /\ \E confirmed \in BOOLEAN : handleDelete(confirmed)

CloseModal ==
    /\ ManagementShown /\ ModalOpen
    /\ handleCloseModal

SelectBroker ==
    /\ ManagementShown /\ ~ModalOpen
    /\ \E i \in 1..Len(brokers) : handleSelectBroker(brokers[i].brokerName)

SwitchBroker ==
    /\ DashboardShown
    /\ handleSwitchBroker

SaveEntry ==
    /\ DashboardShown
    /\ \E date \in StoreDates : handleSaveEntry(EntryOf(FormA, date))

DeleteEntry ==
    /\ DashboardShown
    /\ \E date \in StoreDates : handleDeleteEntry(date)

FileChange ==
    /\ ManagementShown /\ ~ModalOpen
    /\ \E file \in ImportFiles : handleFileChange(file)

ReaderOnload ==
    \E confirmed \in BOOLEAN : readerOnload(confirmed)

Next ==
    \/ AddBroker
    \/ EditClick
    \/ SaveChanges
    \/ Delete
    \/ CloseModal
    \/ SelectBroker
    \/ SwitchBroker
    \/ SaveEntry
    \/ DeleteEntry
    \/ FileChange
    \/ ReaderOnload

Spec == Init /\ [][Next]_vars

-----------------------------------------------------------------------------
(* One broker's dashboard, with a richer history *)

DashForms == {FormA, FormB, FormC}

InitDash ==
    /\ \E initialLeads \in InitialLeadsInputs, dailyEntries \in {<<>>, <<LegacyEntry>>} :
         LET profile == [brokerName |-> Ana, initialLeads |-> initialLeads,
                         monthlySalesGoal |-> 0, dailyEntries |-> dailyEntries]
         IN  brokers = <<profile>> /\ selectedBroker = <<profile>>
    /\ selectedMonth = CurrentMonth
    /\ editingBroker = <<>>
    /\ sortConfig = DefaultSort
    /\ form = MountedForm(selectedBroker[1])
    /\ pendingFile = <<>>
    /\ pdfExport = NoExport
    /\ storage = <<stringify(brokers)>>
    /\ storageFull = FALSE
    /\ lastCall = Report("handleSelectBroker", "selected")

DashSaveEntry ==
    \E date \in Dates, dailyData \in DashForms :
        /\ \/ Len(selectedBroker[1].dailyEntries) < MaxEntries
           \/ \E i \in 1..Len(selectedBroker[1].dailyEntries) :
                selectedBroker[1].dailyEntries[i].date = date
        /\ handleSaveEntry(EntryOf(dailyData, date))

DashDeleteEntry ==
    \E date \in Dates : handleDeleteEntry(date)

DashSelectMonth ==
    \E month \in Months : setSelectedMonth(month)

NextDash ==
    \/ DashSaveEntry
    \/ DashDeleteEntry
    \/ DashSelectMonth

SpecDash == InitDash /\ [][NextDash]_vars

-----------------------------------------------------------------------------
(* One broker's dashboard and its CSV export *)

ReportForms == {FormA, FormB}

ReportSaveEntry ==
    \E date \in Dates, dailyData \in ReportForms :
        /\ \/ Len(selectedBroker[1].dailyEntries) < MaxEntries
           \/ \E i \in 1..Len(selectedBroker[1].dailyEntries) :
                selectedBroker[1].dailyEntries[i].date = date
        /\ handleSaveEntry(EntryOf(dailyData, date))

NextReport ==
    \/ ReportSaveEntry
    \/ DashDeleteEntry
    \/ DashSelectMonth
    \/ handleGenerateCsv

SpecReport == InitDash /\ [][NextReport]_vars

-----------------------------------------------------------------------------
(* The add form and the edit modal, with the texts of their number inputs *)

\* what the number inputs of the two forms hold
LeadTexts == {<<>>, <<"0">>, <<"7">>, <<"-", "5">>}
GoalTexts == {<<>>, <<"5">>}

ProfileAdd ==
    /\ ManagementShown /\ ~ModalOpen
    /\ \E name \in {Ana, Bob}, leads \in LeadTexts, goal \in GoalTexts :
         BrokerManagement_handleSubmit(name, InputValue(leads), InputValue(goal))

ProfileSaveChanges ==
    /\ ManagementShown /\ ModalOpen
    /\ \E name \in {Ana, Bob}, leads \in LeadTexts, goal \in GoalTexts :
         handleSaveChanges(name, InputValue(leads), InputValue(goal))

NextProfiles ==
    \/ ProfileAdd
    \/ EditClick
    \/ ProfileSaveChanges
    \/ CloseModal
    \/ Delete

SpecProfiles == Init /\ [][NextProfiles]_vars

-----------------------------------------------------------------------------
(* One broker's dashboard, with its forms *)

\* the dialogs cover the dashboard
FormIdle == form.dateToDelete = <<>> /\ ~form.showBulkEditModal

\* the dates, fields and texts entered in the forms
FormDates == {D2, D3}
FormFields == {"signedLeads"}
BulkFields == {"signedLeads"}
NumberTexts == {<<>>, <<"3">>, <<"-", "5">>, <<"-", "0", ".", "5">>}

InitForm ==
    /\ \E dailyEntries \in {<<>>, <<EntryOf(FormB, D3)>>} :
         LET profile == [brokerName |-> Ana, initialLeads |-> 100,
                         monthlySalesGoal |-> 5, dailyEntries |-> dailyEntries]
         IN  brokers = <<profile>> /\ selectedBroker = <<profile>>
    /\ selectedMonth = CurrentMonth
    /\ editingBroker = <<>>
    /\ sortConfig = DefaultSort
    /\ form = MountedForm(selectedBroker[1])
    /\ pendingFile = <<>>
    /\ pdfExport = NoExport
    /\ storage = <<stringify(brokers)>>
    /\ storageFull = FALSE
    /\ lastCall = Report("handleSelectBroker", "selected")

History == entriesWithCalculatedBalances(selectedBroker[1])

SelectDate ==
    /\ FormIdle
    /\ \E date \in FormDates : setSelectedDate(date)

EntryEditClick ==
    /\ FormIdle
    /\ \E k \in 1..Len(History) : BrokerDashboard_handleEditClick(History[k])

NumberChange ==
    /\ FormIdle
    /\ \E field \in FormFields, val \in NumberTexts :
         handleNumberChange(field, InputValue(val))

Submit ==
    /\ FormIdle
    /\ handleSubmit

AskDelete ==
    /\ FormIdle
    /\ \E k \in 1..Len(History) : setDateToDelete(<<History[k].date>>)

CancelDelete ==
    /\ form.dateToDelete # <<>>
    /\ setDateToDelete(<<>>)

ConfirmDelete ==
    /\ form.dateToDelete # <<>>
    /\ confirmDelete

OpenBulkEdit ==
    /\ FormIdle
    /\ openBulkEdit

CancelBulkEdit ==
    /\ form.showBulkEditModal
    /\ cancelBulkEdit

BulkDates ==
    /\ form.showBulkEditModal
    /\ \E date \in FormDates : setBulkStartDate(date) \/ setBulkEndDate(date)

BulkNumberChange ==
    /\ form.showBulkEditModal
    /\ \E field \in BulkFields, val \in NumberTexts :
         handleBulkNumberChange(field, InputValue(val))

BulkSave ==
    /\ form.showBulkEditModal
    /\ \E eastOfUTC \in BOOLEAN : handleBulkSave(eastOfUTC)

NextForm ==
    \/ SelectDate
    \/ EntryEditClick
    \/ NumberChange
    \/ Submit
    \/ AskDelete
    \/ CancelDelete
    \/ ConfirmDelete
    \/ OpenBulkEdit
    \/ CancelBulkEdit
    \/ BulkDates
    \/ BulkNumberChange
    \/ BulkSave

SpecForm == InitForm /\ [][NextForm]_vars

-----------------------------------------------------------------------------
(* BrokerManagement: the sales ranking and the comparison table *)

\* { ...broker, totalSales }
WithTotalSales(broker) ==
    Spread(broker, [totalSales |-> SumOver("signedLeads", broker.dailyEntries)])

RECURSIVE InsertRanked(_, _)
\* Array.prototype.sort is stable: an element moves in front of the ones
\* that the comparator (a, b) => b.totalSales - a.totalSales puts after it
InsertRanked(sorted, e) ==
    IF sorted = <<>> THEN <<e>>
    ELSE IF e.totalSales - sorted[Len(sorted)].totalSales > 0
         THEN Append(InsertRanked(SubSeq(sorted, 1, Len(sorted) - 1), e), sorted[Len(sorted)])
         ELSE Append(sorted, e)

\* a ranking that is left in store order
SortRankedAsStored(list) == list

RECURSIVE SortRanked(_)
\* .sort((a, b) => b.totalSales - a.totalSales)
SortRanked(list) ==
    IF list = <<>> THEN <<>>
    ELSE InsertRanked(SortRanked(SubSeq(list, 1, Len(list) - 1)), list[Len(list)])

rankedBrokers(list) ==
    LET withTotals == [i \in 1..Len(list) |-> WithTotalSales(list[i])]
        HasSales(broker) == broker.totalSales > 0
    IN  SortRanked(SelectSeq(withTotals, HasSales))

\* a conversion rate (totalSales / totalLeadsIn) * 100 is kept as the exact
\* fraction num / den, den > 0; the rate 0 is 0 / 1
Rate(totalSales, totalLeadsIn) ==
    IF totalLeadsIn > 0
    THEN [num |-> totalSales * 100, den |-> totalLeadsIn]
    ELSE [num |-> 0, den |-> 1]

\* one row of calculatedData
ComparisonRow(broker) ==
    LET totalNewLeads == SumOver("newLeads", broker.dailyEntries)
        totalRepiqueLeads == SumOver("repiqueLeads", broker.dailyEntries)
        totalSales == SumOver("signedLeads", broker.dailyEntries)
        totalLeadsIn == totalNewLeads + totalRepiqueLeads
    IN  [brokerName |-> broker.brokerName,
         totalNewLeads |-> totalLeadsIn,
         totalSales |-> totalSales,
         conversionRate |-> Rate(totalSales, totalLeadsIn)]

\* a[key] < b[key]
KeyLess(a, b, key) ==
    IF key = "conversionRate"
    THEN a.conversionRate.num * b.conversionRate.den
           < b.conversionRate.num * a.conversionRate.den
    ELSE a[key] < b[key]

\* the comparator of calculatedData.sort
CompareRows(a, b, config) ==
    IF KeyLess(a, b, config.key)
    THEN (IF config.direction = "ascending" THEN -1 ELSE 1)
    ELSE IF KeyLess(b, a, config.key)
         THEN (IF config.direction = "ascending" THEN 1 ELSE -1)
         ELSE 0

RECURSIVE InsertRow(_, _, _)
InsertRow(sorted, e, config) ==
    IF sorted = <<>> THEN <<e>>
    ELSE IF CompareRows(sorted[Len(sorted)], e, config) > 0
         THEN Append(InsertRow(SubSeq(sorted, 1, Len(sorted) - 1), e, config),
                     sorted[Len(sorted)])
         ELSE Append(sorted, e)

RECURSIVE SortRows(_, _)
\* calculatedData.sort(CompareRows)
SortRows(rows, config) ==
    IF rows = <<>> THEN <<>>
    ELSE InsertRow(SortRows(SubSeq(rows, 1, Len(rows) - 1), config), rows[Len(rows)], config)

\* a table that leaves out the brokers without a sale
comparisonDataSelling(list, config) ==
    LET rows == [i \in 1..Len(list) |-> ComparisonRow(list[i])]
        HasSales(row) == row.totalSales > 0
    IN  SortRows(SelectSeq(rows, HasSales), config)

comparisonData(list, config) ==
    IF list = <<>> THEN <<>>
    ELSE SortRows([i \in 1..Len(list) |-> ComparisonRow(list[i])], config)

\* a request that keeps the direction
requestSortKeepingDirection(key) ==
    /\ sortConfig' = [key |-> key, direction |-> sortConfig.direction]
    /\ lastCall' = Report("requestSort", "sorted")
    /\ UNCHANGED <<brokers, selectedBroker, selectedMonth, editingBroker, form, pendingFile, pdfExport,
                   storage, storageFull>>

requestSort(key) ==
    LET direction ==
            IF sortConfig.key = key /\ sortConfig.direction = "ascending"
            THEN "descending"
            ELSE "ascending"
    IN  /\ sortConfig' = [key |-> key, direction |-> direction]
        /\ lastCall' = Report("requestSort", "sorted")
        /\ UNCHANGED <<brokers, selectedBroker, selectedMonth, editingBroker, form, pendingFile, pdfExport,
                       storage, storageFull>>

\* the management screen over stores of up to MaxBrokers brokers
MaxBrokers == 4

Ann == <<"A", "n", "n">>
Bo == <<"B", "o">>
ManageNames == <<Ana, Bob, Ann, Bo>> \o [i \in 1..(MaxBrokers - 4) |-> <<"o", "b">>]

FormS == [initialState EXCEPT !.newLeads = 5, !.signedLeads = 5]

\* entry histories: none; no lead and no sale; 1 sale of 4 leads, without a
\* repiqueLeads field; 3 sales of 18; 5 sales of 26; 5 sales of 5
ManageHistories ==
    {<<>>,
     <<EntryOf(FormC, D2)>>,
     <<LegacyEntry>>,
     <<EntryOf(FormB, D2), EntryOf(FormA, D3)>>,
     <<EntryOf(FormB, D1), EntryOf(FormB, D2), EntryOf(FormA, D3)>>,
     <<EntryOf(FormS, D2)>>}

ManageStores ==
    UNION {[1..n -> ManageHistories] : n \in 0..MaxBrokers}

InitManage ==
    /\ \E histories \in ManageStores :
         brokers = [i \in 1..Len(histories) |->
                      [brokerName |-> ManageNames[i], initialLeads |-> 100,
                       monthlySalesGoal |-> 5, dailyEntries |-> histories[i]]]
    /\ selectedBroker = <<>>
    /\ selectedMonth = NoMonth
    /\ editingBroker = <<>>
    /\ sortConfig = DefaultSort
    /\ form = NoForm
    /\ pendingFile = <<>>
    /\ pdfExport = NoExport
    /\ storage = <<stringify(brokers)>>
    /\ storageFull = FALSE
    /\ lastCall = Report("App", "mounted")

SortKeys == {"totalNewLeads", "totalSales", "conversionRate"}

RequestSort ==
    /\ ManagementShown /\ ~ModalOpen
    /\ \E key \in SortKeys : requestSort(key)

NextManage ==
    \/ RequestSort
    \/ SelectBroker
    \/ SwitchBroker

SpecManage == InitManage /\ [][NextManage]_vars

-----------------------------------------------------------------------------
(* The store with its persisted document: page loads and a storage that    *)
(* may refuse writes                                                        *)

TextNull == [parses |-> TRUE, data |-> JNull]

\* what the storage may hold when the page is first opened
PersistedInputs ==
    {<<>>, <<FileUnparsable>>, <<FileNotArray>>, <<TextNull>>, <<FileBackup>>}

\* the page is loaded: useState(getInitialBrokers), then the first render's effects
Mount ==
    /\ brokers' = getInitialBrokers(storage)
    /\ selectedBroker' = <<>>
    /\ selectedMonth' = NoMonth
    /\ editingBroker' = <<>>
    /\ sortConfig' = DefaultSort
    /\ form' = NoForm
    /\ pendingFile' = <<>>
    /\ pdfExport' = NoExport
    /\ saveEffect
    /\ lastCall' = Report("App", "mounted")

\* the browser's quota is reached / space is freed
StorageFills ==
    /\ ~storageFull
    /\ storageFull' = TRUE
    /\ UNCHANGED <<brokers, selectedBroker, selectedMonth, editingBroker, sortConfig, form, pendingFile, pdfExport,
                   storage, lastCall>>

StorageFrees ==
    /\ storageFull
    /\ storageFull' = FALSE
    /\ UNCHANGED <<brokers, selectedBroker, selectedMonth, editingBroker, sortConfig, form, pendingFile, pdfExport,
                   storage, lastCall>>

\* the state after the first page load, whatever the storage held
InitPersist ==
    /\ \E item \in PersistedInputs :
         /\ brokers = getInitialBrokers(item)
         /\ storageFull \in BOOLEAN
         /\ storage = IF storageFull THEN item ELSE <<stringify(brokers)>>
    /\ selectedBroker = <<>>
    /\ selectedMonth = NoMonth
    /\ editingBroker = <<>>
    /\ sortConfig = DefaultSort
    /\ form = NoForm
    /\ pendingFile = <<>>
    /\ pdfExport = NoExport
    /\ lastCall = Report("App", "mounted")

\* the inputs explored together with page loads and refused writes
PersistNames == {Ana, Bob}
PersistFiles == {FileBackup, FileOfStrings}

PersistAddBroker ==
    /\ ManagementShown /\ ~ModalOpen
    /\ \E name \in PersistNames : BrokerManagement_handleSubmit(name, <<0>>, <<5>>)

PersistSaveChanges ==
    /\ ManagementShown /\ ModalOpen
    /\ \E name \in PersistNames : handleSaveChanges(name, <<100>>, <<5>>)

PersistFileChange ==
    /\ ManagementShown /\ ~ModalOpen
    /\ \E file \in PersistFiles : handleFileChange(file)

NextPersist ==
    \/ Mount
    \/ StorageFills
    \/ StorageFrees
    \/ PersistAddBroker
    \/ EditClick
    \/ PersistSaveChanges
    \/ Delete
    \/ CloseModal
    \/ SelectBroker
    \/ SwitchBroker
    \/ SaveEntry
    \/ DeleteEntry
    \/ PersistFileChange
    \/ ReaderOnload

SpecPersist == InitPersist /\ [][NextPersist]_vars

-----------------------------------------------------------------------------
(* Properties of the projections, stated on the dashboard's profile prop *)

Profile == selectedBroker[1]

\* the projection in the order it was walked (oldest first)
Walked(profile) == Reverse(entriesWithCalculatedBalances(profile))

WellFormedDate(date) == date \in {D1, D2, D3, D4}

WellFormedUniqueDates(entries) ==
    /\ \A i \in 1..Len(entries) : WellFormedDate(entries[i].date)
    /\ \A i, j \in 1..Len(entries) : i # j => entries[i].date # entries[j].date

\* a date as the number YYYYMMDD
DayNumber(date) == date[1] * 10000 + date[2] * 100 + date[3]

WithoutBalances(e) ==
    [k \in (DOMAIN e) \ {"startOfDayBalance", "endOfDayBalance"} |-> e[k]]

Inflow(e) == e.newLeads + (IF "repiqueLeads" \in DOMAIN e THEN e.repiqueLeads ELSE 0)
Outflow(e) == e.discardedLeads + e.signedLeads

\* C1: with well-formed, unique dates the projection walks the stored entries
\* in ascending date order whatever their stored order; the first startOfDay
\* is initialLeads, each later startOfDay is the previous endOfDay, and each
\* endOfDay is startOfDay + newLeads + repiqueLeads (0 when absent)
\* - discardedLeads - signedLeads, negative or not.
C1_BalanceProjection ==
    LET entries == Profile.dailyEntries
        walked == Walked(Profile)
        n == Len(walked)
    IN  (DashboardShown /\ WellFormedUniqueDates(entries)) =>
          /\ n = Len(entries)
          /\ {WithoutBalances(walked[i]) : i \in 1..n} = {entries[i] : i \in 1..n}
          /\ \A i \in 1..(n - 1) : DayNumber(walked[i].date) < DayNumber(walked[i + 1].date)
          /\ n > 0 => walked[1].startOfDayBalance = Profile.initialLeads
          /\ \A i \in 1..(n - 1) : walked[i + 1].startOfDayBalance = walked[i].endOfDayBalance
          /\ \A i \in 1..n :
               walked[i].endOfDayBalance =
                   walked[i].startOfDayBalance + Inflow(walked[i]) - Outflow(walked[i])

\* C1 witness: the documented example, stored newest first
C1_Witness ==
    /\ DashboardShown
    /\ Profile.initialLeads = 100
    /\ Profile.dailyEntries = <<EntryOf(FormB, D3), EntryOf(FormA, D2)>>
    /\ LET walked == Walked(Profile)
       IN  /\ walked[1].date = D2
           /\ walked[1].startOfDayBalance = 100 /\ walked[1].endOfDayBalance = 107
           /\ walked[2].startOfDayBalance = 107 /\ walked[2].endOfDayBalance = 113

\* "YYYY-MM-01" as a number; the empty date sorts below every date
DateKey(date) == IF date = EmptyDate THEN 0 ELSE DayNumber(date)
MonthKey(month) == month[1] * 10000 + month[2] * 100 + 1

NextMonth(month) ==
    IF month[2] = 12 THEN <<month[1] + 1, 1>> ELSE <<month[1], month[2] + 1>>

InMonth(date, month) ==
    WellFormedDate(date) /\ date[1] = month[1] /\ date[2] = month[2]

\* The entries dated before the first day of a month.  An entry without a
\* date is counted by one reading (its date string is smaller) and not by
\* the other (it has no date), and "the last entry" is the one with the
\* latest date or the one the projector walked last; a claim is taken to
\* hold under any of these readings.
BeforeCounting(seq, month) ==
    {i \in 1..Len(seq) : DateKey(seq[i].date) < MonthKey(month)}
BeforeDated(seq, month) ==
    {i \in BeforeCounting(seq, month) : WellFormedDate(seq[i].date)}

\* endOfDay of the latest-dated entry among those at S, or initialLeads
EndOfLatest(walked, S, initialLeads) ==
    IF S = {} THEN initialLeads
    ELSE LET last == CHOOSE i \in S :
                        \A j \in S : \/ DateKey(walked[j].date) < DateKey(walked[i].date)
                                     \/ DateKey(walked[j].date) = DateKey(walked[i].date) /\ j <= i
         IN  walked[last].endOfDayBalance

\* endOfDay of the entry among those at S that the projector walked last
EndOfLastWalked(walked, S, initialLeads) ==
    IF S = {} THEN initialLeads
    ELSE walked[CHOOSE i \in S : \A j \in S : j <= i].endOfDayBalance

Net(e) == Inflow(e) - Outflow(e)

\* what an entry contributes to a total
Measure(kind, e) ==
    CASE kind = "net" -> Net(e)
      [] kind = "repiqueLeads" -> (IF "repiqueLeads" \in DOMAIN e THEN e.repiqueLeads ELSE 0)
      [] OTHER -> e[kind]

RECURSIVE TotalOver(_, _, _)
\* the total of a measure over the entries at the indices S
TotalOver(kind, seq, S) ==
    IF S = {} THEN 0
    ELSE LET i == CHOOSE k \in S : TRUE
         IN  Measure(kind, seq[i]) + TotalOver(kind, seq, S \ {i})

\* C2: the aggregator's month-start balance is the projector's endOfDay of the
\* last entry dated strictly before the first day of the month, or
\* initialLeads when no entry precedes the month.
C2_MonthStartIsProjectedBalance ==
    DashboardShown =>
        LET walked == Walked(Profile)
            start == monthlySummary(Profile, selectedMonth).initialLeadsForMonth
            counting == BeforeCounting(walked, selectedMonth)
            dated == BeforeDated(walked, selectedMonth)
        IN  \/ start = EndOfLatest(walked, counting, Profile.initialLeads)
            \/ start = EndOfLatest(walked, dated, Profile.initialLeads)
            \/ start = EndOfLastWalked(walked, counting, Profile.initialLeads)
            \/ start = EndOfLastWalked(walked, dated, Profile.initialLeads)

\* C2, for histories in which every entry has a well-formed date
C2_HoldsForWellFormedDates ==
    (DashboardShown /\ WellFormedUniqueDates(Profile.dailyEntries)) =>
        LET walked == Walked(Profile)
        IN  monthlySummary(Profile, selectedMonth).initialLeadsForMonth =
                EndOfLatest(walked, BeforeDated(walked, selectedMonth), Profile.initialLeads)

\* C3: the month-end balance of a month is the projector's endOfDay of the
\* last entry dated on or before the month's last day and is the month-start
\* balance of the following month; for the month of the last chronological
\* entry it is that entry's endOfDay.
C3_MonthEndIsProjectedBalance ==
    DashboardShown =>
        LET walked == Walked(Profile)
            all == 1..Len(walked)
            monthEnd == monthlySummary(Profile, selectedMonth).finalLeadsForMonth
            following == NextMonth(selectedMonth)
            lastDate == IF all = {} THEN EmptyDate
                        ELSE walked[CHOOSE i \in all : \A j \in all :
                                 DateKey(walked[j].date) <= DateKey(walked[i].date)].date
            counting == BeforeCounting(walked, following)
            dated == BeforeDated(walked, following)
        IN  /\ \/ monthEnd = EndOfLatest(walked, counting, Profile.initialLeads)
               \/ monthEnd = EndOfLatest(walked, dated, Profile.initialLeads)
               \/ monthEnd = EndOfLastWalked(walked, counting, Profile.initialLeads)
               \/ monthEnd = EndOfLastWalked(walked, dated, Profile.initialLeads)
            /\ monthEnd = monthlySummary(Profile, following).initialLeadsForMonth
            /\ InMonth(lastDate, selectedMonth) =>
                   monthEnd = EndOfLatest(walked, all, Profile.initialLeads)

\* C3, for histories in which every entry has a well-formed date
C3_HoldsForWellFormedDates ==
    WellFormedUniqueDates(Profile.dailyEntries) => C3_MonthEndIsProjectedBalance

\* C4: for a month without entries the sums are 0, the conversion rate is
\* "0.0", and month-start = month-end = the balance carried from all entries
\* dated before the month (initialLeads when there are none).
C4_EmptyMonth ==
    LET entries == Profile.dailyEntries
        summary == monthlySummary(Profile, selectedMonth)
    IN  (DashboardShown /\ \A i \in 1..Len(entries) : ~InMonth(entries[i].date, selectedMonth)) =>
          /\ summary.newLeads = 0 /\ summary.repiqueLeads = 0
          /\ summary.signedLeads = 0 /\ summary.discardedLeads = 0
          /\ summary.conversionRate = 0
          /\ summary.initialLeadsForMonth = summary.finalLeadsForMonth
          /\ \/ summary.initialLeadsForMonth = Profile.initialLeads
                  + TotalOver("net", entries, BeforeCounting(entries, selectedMonth))
             \/ summary.initialLeadsForMonth = Profile.initialLeads
                  + TotalOver("net", entries, BeforeDated(entries, selectedMonth))

\* C4, for histories in which every entry has a well-formed date
C4_HoldsForWellFormedDates ==
    WellFormedUniqueDates(Profile.dailyEntries) => C4_EmptyMonth


\* C5: the monthly sums run over exactly the entries dated in the month;
\* conversionRate is 0 when newLeads + repiqueLeads is 0 and otherwise
\* signedLeads * 100 / (newLeads + repiqueLeads), to one decimal (tenths).
C5_MonthlySums ==
    DashboardShown =>
        LET entries == Profile.dailyEntries
            inMonth == {i \in 1..Len(entries) : InMonth(entries[i].date, selectedMonth)}
            summary == monthlySummary(Profile, selectedMonth)
            totalLeadsIn == summary.newLeads + summary.repiqueLeads
        IN  /\ summary.newLeads = TotalOver("newLeads", entries, inMonth)
            /\ summary.repiqueLeads = TotalOver("repiqueLeads", entries, inMonth)
            /\ summary.signedLeads = TotalOver("signedLeads", entries, inMonth)
            /\ summary.discardedLeads = TotalOver("discardedLeads", entries, inMonth)
            /\ totalLeadsIn = 0 => summary.conversionRate = 0
            /\ totalLeadsIn > 0 =>
                 /\ 2 * (summary.conversionRate * totalLeadsIn - 1000 * summary.signedLeads)
                      <= totalLeadsIn
                 /\ 2 * (1000 * summary.signedLeads - summary.conversionRate * totalLeadsIn)
                      <= totalLeadsIn

\* C5 witness: January holds two of three entries; 3 signed of 18 is 16.7 %
C5_Witness ==
    /\ DashboardShown
    /\ selectedMonth = <<2024, 1>>
    /\ Profile.dailyEntries = <<EntryOf(FormB, D4), EntryOf(FormA, D2), EntryOf(FormB, D3)>>
    /\ LET summary == monthlySummary(Profile, selectedMonth)
       IN  /\ summary.newLeads = 15 /\ summary.repiqueLeads = 3
           /\ summary.signedLeads = 3 /\ summary.discardedLeads = 2
           /\ summary.conversionRate = 167

-----------------------------------------------------------------------------
(* Properties of the broker store *)

UpperChar(c) ==
    CASE c = "a" -> "A"
      [] c = "b" -> "B"
      [] c = "n" -> "N"
      [] c = "o" -> "O"
      [] OTHER -> c

\* two names that differ at most in the case of their letters
SameIgnoringCase(a, b) ==
    /\ Len(a) = Len(b)
    /\ \A i \in 1..Len(a) : UpperChar(a[i]) = UpperChar(b[i])

UpdatedDataInputs ==
    [brokerName : NameInputs, initialLeads : InitialLeadsInputs, monthlySalesGoal : GoalInputs]

\* C6: in every reachable state of the store (after adds, renames, deletes,
\* entry upserts, entry deletes and successful restores) no two broker
\* profiles have names that are equal when compared case-insensitively.
C6_NamesUniqueIgnoringCase ==
    \A i, j \in 1..Len(brokers) :
        i # j => ~SameIgnoringCase(brokers[i].brokerName, brokers[j].brokerName)

\* every step other than a restore keeps the names unique
C6_HoldsWithoutRestore ==
    [][(C6_NamesUniqueIgnoringCase /\ lastCall'.handler # "handleRestoreBrokers")
          => C6_NamesUniqueIgnoringCase']_vars

\* C7: in every reachable state of the store each broker has at most one
\* entry per date.
C7_OneEntryPerDate ==
    \A b \in 1..Len(brokers) :
        \A i, j \in 1..Len(brokers[b].dailyEntries) :
            i # j => brokers[b].dailyEntries[i].date # brokers[b].dailyEntries[j].date

\* every step other than a restore keeps the dates of each broker unique
C7_HoldsWithoutRestore ==
    [][(C7_OneEntryPerDate /\ lastCall'.handler # "handleRestoreBrokers")
          => C7_OneEntryPerDate']_vars

\* C8: add(name, initialLeads, goal) with a name that matches an existing
\* profile's name case-insensitively is rejected and leaves the store exactly
\* unchanged; with a name that matches none it appends one new profile with
\* that name, initialLeads and goal and no entries, every existing profile
\* staying as it was.
C8_AddRejectsOrInserts ==
    [][\A name \in NameInputs, initialLeads \in InitialLeadsInputs, goal \in GoalInputs :
          handleAddBroker(name, initialLeads, goal) =>
            IF \E i \in 1..Len(brokers) : SameIgnoringCase(brokers[i].brokerName, name)
            THEN /\ brokers' = brokers
                 /\ lastCall'.result = "alert: duplicate name"
            ELSE /\ brokers' = Append(brokers, [brokerName |-> name,
                                                initialLeads |-> initialLeads,
                                                monthlySalesGoal |-> goal,
                                                dailyEntries |-> <<>>])
                 /\ lastCall'.result = "added"]_vars

\* C8 witness: an add was just refused while "Ana" and "Bob" are stored
C8_Witness ==
    /\ lastCall = Report("handleAddBroker", "alert: duplicate name")
    /\ Len(brokers) = 2
    /\ brokers[1].brokerName = Ana
    /\ brokers[2].brokerName = Bob

\* rename/update is called by the edit modal with the name of the profile
\* the modal was opened on
OldName == editingBroker[1].brokerName

\* the new name matches, case-insensitively, a profile other than the renamed one
CollidesWithOther(list, oldName, newName) ==
    \E i \in 1..Len(list) :
        /\ list[i].brokerName # oldName
        /\ SameIgnoringCase(list[i].brokerName, newName)

\* C9: a rename/update whose new name collides case-insensitively with a
\* different existing profile is rejected: it reports failure and leaves
\* every profile of the store exactly unchanged.
C9_CollidingRenameRejected ==
    [][\A newData \in UpdatedDataInputs :
          (/\ ModalOpen
           /\ handleUpdateBroker(OldName, newData)
           /\ CollidesWithOther(brokers, OldName, newData.brokerName))
            => /\ brokers' = brokers
               /\ lastCall'.result = "alert: duplicate name, false"]_vars

\* the same, for renames that start from a store whose names are unique
C9_HoldsWhileNamesUnique ==
    [][\A newData \in UpdatedDataInputs :
          (/\ ModalOpen
           /\ C6_NamesUniqueIgnoringCase
           /\ handleUpdateBroker(OldName, newData)
           /\ CollidesWithOther(brokers, OldName, newData.brokerName))
            => /\ brokers' = brokers
               /\ lastCall'.result = "alert: duplicate name, false"]_vars

\* after is before with name, initialLeads and goal taken from newData and
\* everything else, the entries included, kept
RenamedFrom(before, after, newData) ==
    /\ DOMAIN after = (DOMAIN before) \cup (DOMAIN newData)
    /\ after.brokerName = newData.brokerName
    /\ after.initialLeads = newData.initialLeads
    /\ after.monthlySalesGoal = newData.monthlySalesGoal
    /\ after.dailyEntries = before.dailyEntries

\* C10: a successful rename/update(oldName, newData) changes only the name,
\* initialLeads and goal of the profile named oldName: it keeps its position
\* and exactly its entries, and every other profile is unchanged.
C10_RenameFrame ==
    [][\A newData \in UpdatedDataInputs :
          (/\ ModalOpen
           /\ handleUpdateBroker(OldName, newData)
           /\ lastCall'.result = "true")
            => /\ Len(brokers') = Len(brokers)
               /\ \A i \in 1..Len(brokers) :
                     IF brokers[i].brokerName = OldName
                     THEN RenamedFrom(brokers[i], brokers'[i], newData)
                     ELSE brokers'[i] = brokers[i]]_vars

\* C10 witness: a rename went through on the first of two profiles, which
\* carries an entry
C10_Witness ==
    /\ lastCall = Report("handleUpdateBroker", "true")
    /\ Len(brokers) = 2
    /\ brokers[1].brokerName = ana
    /\ brokers[1].initialLeads = 100
    /\ brokers[1].dailyEntries = <<EntryOf(FormA, D2)>>
    /\ brokers[2].brokerName = Bob

-----------------------------------------------------------------------------
(* Properties of the backup import *)

\* the step in which a file read completes
ReadCompletes == pendingFile # <<>> /\ pendingFile' = <<>>

HasProp(item, key, type) ==
    /\ key \in DOMAIN item.fields
    /\ item.fields[key].type = type

\* an array of objects each having a string brokerName, a numeric
\* initialLeads and an array dailyEntries
WellShaped(file) ==
    /\ file.parses
    /\ file.data.type = "array"
    /\ \A i \in 1..Len(file.data.items) :
         LET item == file.data.items[i]
         IN  /\ item.type = "object"
             /\ HasProp(item, "brokerName", "string")
             /\ HasProp(item, "initialLeads", "number")
             /\ HasProp(item, "dailyEntries", "array")

\* C11: a restore from input that is not an array of objects each having a
\* string brokerName, a numeric initialLeads and an array dailyEntries is
\* rejected wholesale: the store is left exactly unchanged and the failure
\* is reported.
C11_MalformedRestoreRejected ==
    [][(ReadCompletes /\ ~WellShaped(pendingFile[1]))
          => /\ brokers' = brokers
             /\ lastCall' = Report("reader.onload", "alert: import failed")]_vars

\* C11 witness: an import has just failed while two profiles are stored
C11_Witness ==
    /\ lastCall = Report("reader.onload", "alert: import failed")
    /\ Len(brokers) = 2
    /\ brokers[1].brokerName = Ana
    /\ brokers[2].brokerName = Bob

\* C12: a successful restore replaces the whole store: right afterwards the
\* store is exactly the imported collection (it serializes back to the
\* imported document), nothing of the previous store surviving, whatever
\* was done between choosing the file and the end of the read; a declined
\* confirmation leaves the store unchanged; a well-formed file ends in one
\* of the two.
C12_RestoreReplacesStore ==
    [][(ReadCompletes /\ WellShaped(pendingFile[1]))
          => \/ /\ lastCall' = Report("handleRestoreBrokers", "alert: restored")
                /\ JStore(brokers') = pendingFile[1].data
             \/ /\ lastCall' = Report("reader.onload", "declined")
                /\ brokers' = brokers]_vars

\* C12 witness: the backup holding only "Bob" was restored while the edit
\* modal, opened after the file was chosen, still shows the profile "Ana"
\* of the replaced store
C12_Witness ==
    /\ lastCall = Report("handleRestoreBrokers", "alert: restored")
    /\ JStore(brokers) = FileBackup.data
    /\ editingBroker # <<>>
    /\ editingBroker[1].brokerName = Ana

-----------------------------------------------------------------------------
(* Properties of delete *)

\* the positions of the profiles not named name, and where each ends up
\* once the others are taken out
KeptPositions(list, name) == {i \in 1..Len(list) : list[i].brokerName # name}
PositionAfter(list, name, i) == Cardinality({j \in KeptPositions(list, name) : j <= i})

\* C13: a confirmed delete(name) removes the profile with that name, entries
\* included, and leaves every other profile unchanged and in order; a
\* declined confirmation leaves the store unchanged; a later add, of the
\* same name too, creates a profile without entries.
C13_DeleteRemovesProfile ==
    [][/\ (ModalOpen /\ lastCall' = Report("handleDeleteBroker", "deleted"))
            => /\ \A i \in 1..Len(brokers') : brokers'[i].brokerName # OldName
               /\ Len(brokers') = Cardinality(KeptPositions(brokers, OldName))
               /\ \A i \in KeptPositions(brokers, OldName) :
                     brokers'[PositionAfter(brokers, OldName, i)] = brokers[i]
       /\ (ModalOpen /\ lastCall' = Report("handleDeleteBroker", "declined"))
            => brokers' = brokers
       /\ lastCall' = Report("handleAddBroker", "added")
            => /\ Len(brokers') = Len(brokers) + 1
               /\ brokers'[Len(brokers')].dailyEntries = <<>>
               /\ \A i \in 1..Len(brokers) : brokers'[i] = brokers[i]]_vars

\* C13 witness: "Ana" was just deleted from a store in which she came first;
\* "Bob", who holds an entry, is what is left
C13_Witness ==
    /\ lastCall = Report("handleDeleteBroker", "deleted")
    /\ Len(brokers) = 1
    /\ brokers[1].brokerName = Bob
    /\ brokers[1].dailyEntries = <<EntryOf(FormA, D2)>>

-----------------------------------------------------------------------------
(* Properties of persistence *)

\* what the handlers report when startup or a mutation has completed
CompletedMutations ==
    {Report("App", "mounted"),
     Report("handleAddBroker", "added"),
     Report("handleUpdateBroker", "true"),
     Report("handleDeleteBroker", "deleted"),
     Report("handleSaveEntry", "saved"),
     Report("handleDeleteEntry", "deleted"),
     Report("handleRestoreBrokers", "alert: restored")}

\* the item is a JSON array that parses back to exactly the list
HoldsExactly(item, list) ==
    /\ item # <<>>
    /\ item[1].parses
    /\ item[1].data.type = "array"
    /\ Len(item[1].data.items) = Len(list)
    /\ Plain(item[1].data) = list

\* C14: after startup and after every completed mutation the persisted
\* document is the serialization of the whole in-memory collection if the
\* storage accepts the write; if it refuses, the document keeps its content,
\* the handler still completes and the mutation stays applied in memory.
C14_PersistedAfterEveryMutation ==
    [][(lastCall' \in CompletedMutations /\ storageFull' = storageFull)
          => /\ ~storageFull => HoldsExactly(storage', brokers')
             /\ storageFull =>
                  /\ storage' = storage
                  /\ lastCall' = Report("handleAddBroker", "added")
                       => Len(brokers') = Len(brokers) + 1
                  /\ lastCall' = Report("handleRestoreBrokers", "alert: restored")
                       => JStore(brokers') = pendingFile[1].data]_vars

\* C14 witness: an entry was just saved and the document holds the two
\* profiles of the store, that entry included
C14_Witness ==
    /\ lastCall = Report("handleSaveEntry", "saved")
    /\ ~storageFull
    /\ Len(brokers) = 2
    /\ selectedBroker[1].dailyEntries # <<>>
    /\ HoldsExactly(storage, brokers)

\* C14 (refused write): an entry was just saved in memory while the
\* document still holds no profile
C14_RefusedWriteReached ==
    /\ lastCall = Report("handleSaveEntry", "saved")
    /\ storageFull
    /\ brokers # <<>>
    /\ HoldsExactly(storage, <<>>)

\* the item parses to an array
HoldsArray(item) ==
    /\ item # <<>>
    /\ item[1].parses
    /\ item[1].data.type = "array"

\* C15: at startup, if the persisted document is missing, fails to parse or
\* parses to something that is not an array, the store starts empty (and
\* startup completes); if it parses to an array the store starts as exactly
\* that array.
C15_StartupReadsDocument ==
    [][(lastCall' = Report("App", "mounted") /\ storageFull' = storageFull)
          => IF HoldsArray(storage)
             THEN JStore(brokers') = storage[1].data
             ELSE brokers' = <<>>]_vars

\* C15 witness: the page was loaded over an unparsable document, which a
\* refused write left in place, and the store is empty
C15_Witness ==
    /\ lastCall = Report("App", "mounted")
    /\ storage = <<FileUnparsable>>
    /\ brokers = <<>>

\* C15 (array): the page was just loaded over the document of "Bob" alone,
\* kept by a storage that refuses writes, and the store is that array
C15_ArrayLoadedReached ==
    /\ lastCall = Report("App", "mounted")
    /\ storageFull
    /\ storage = <<FileBackup>>
    /\ JStore(brokers) = FileBackup.data

-----------------------------------------------------------------------------
(* Properties of the ranking and the comparison table *)

AllOf(seq) == 1..Len(seq)

\* a broker's sales: the signedLeads of all its entries
TotalSales(broker) == TotalOver("signedLeads", broker.dailyEntries, AllOf(broker.dailyEntries))

\* a broker's leads in: the newLeads and repiqueLeads of all its entries
TotalLeadsIn(broker) ==
    TotalOver("newLeads", broker.dailyEntries, AllOf(broker.dailyEntries))
      + TotalOver("repiqueLeads", broker.dailyEntries, AllOf(broker.dailyEntries))

\* where the broker of that name stands in the store
StorePosition(name) == CHOOSE i \in AllOf(brokers) : brokers[i].brokerName = name

\* C16: the sales ranking holds exactly the brokers whose totalSales (the sum
\* of signedLeads over all their entries) is greater than 0, by totalSales
\* descending, brokers of equal totalSales in their store order.
C16_SalesRanking ==
    LET ranked == rankedBrokers(brokers)
        selling == {i \in AllOf(brokers) : TotalSales(brokers[i]) > 0}
    IN  /\ Len(ranked) = Cardinality(selling)
        /\ {ranked[k].brokerName : k \in AllOf(ranked)} = {brokers[i].brokerName : i \in selling}
        /\ \A k \in AllOf(ranked) :
             LET broker == brokers[StorePosition(ranked[k].brokerName)]
             IN  /\ ranked[k].totalSales = TotalSales(broker)
                 /\ ranked[k].initialLeads = broker.initialLeads
        /\ \A k, l \in AllOf(ranked) :
             k < l =>
               \/ ranked[k].totalSales > ranked[l].totalSales
               \/ /\ ranked[k].totalSales = ranked[l].totalSales
                  /\ StorePosition(ranked[k].brokerName) < StorePosition(ranked[l].brokerName)

\* C16 witness: the totals [0, 5, 5, 3] rank as the two 5's in store order,
\* then the 3
C16_Witness ==
    /\ Len(brokers) = 4
    /\ [i \in 1..4 |-> TotalSales(brokers[i])] = <<0, 5, 5, 3>>
    /\ LET ranked == rankedBrokers(brokers)
       IN  /\ [k \in AllOf(ranked) |-> ranked[k].brokerName] = <<Bob, Ann, Bo>>
           /\ [k \in AllOf(ranked) |-> ranked[k].totalSales] = <<5, 5, 3>>

\* the value a broker is ordered by, as a fraction: a count over 1, or the
\* sales per hundred leads in (0 when there are no leads in)
KeyNum(broker, key) ==
    CASE key = "totalNewLeads" -> TotalLeadsIn(broker)
      [] key = "totalSales" -> TotalSales(broker)
      [] key = "conversionRate" ->
           IF TotalLeadsIn(broker) = 0 THEN 0 ELSE TotalSales(broker) * 100

KeyDen(broker, key) ==
    IF key = "conversionRate" /\ TotalLeadsIn(broker) # 0 THEN TotalLeadsIn(broker) ELSE 1

\* the first broker's value is at most the second's
KeyAtMost(b1, b2, key) ==
    KeyNum(b1, key) * KeyDen(b2, key) <= KeyNum(b2, key) * KeyDen(b1, key)

\* C17: the comparison table has exactly one row for every broker of the
\* store, brokers without sales or without entries included; a row carries
\* the broker's leads in (newLeads + repiqueLeads), its sales (signedLeads)
\* and its conversion rate (0 without leads in, else sales * 100 / leads in);
\* the rows are ordered by the selected key in the selected direction.
C17_ComparisonTable ==
    LET rows == comparisonData(brokers, sortConfig)
    IN  /\ Len(rows) = Len(brokers)
        /\ \A i \in AllOf(brokers) :
             Cardinality({k \in AllOf(rows) : rows[k].brokerName = brokers[i].brokerName}) = 1
        /\ \A k \in AllOf(rows) :
             LET broker == brokers[StorePosition(rows[k].brokerName)]
                 leadsIn == TotalLeadsIn(broker)
                 sales == TotalSales(broker)
                 rate == rows[k].conversionRate
             IN  /\ rows[k].totalNewLeads = leadsIn
                 /\ rows[k].totalSales = sales
                 /\ leadsIn = 0 => rate.num = 0
                 /\ leadsIn # 0 => rate.num * leadsIn = sales * 100 * rate.den
        /\ \A k, l \in AllOf(rows) :
             k < l =>
               LET first == brokers[StorePosition(rows[k].brokerName)]
                   second == brokers[StorePosition(rows[l].brokerName)]
               IN  IF sortConfig.direction = "ascending"
                   THEN KeyAtMost(first, second, sortConfig.key)
                   ELSE KeyAtMost(second, first, sortConfig.key)

\* C17 witness: a table sorted on request by ascending conversion rate, over a
\* store that holds a broker without entries and a broker with entries but no
\* sale, whose rows are not in store order
C17_Witness ==
    /\ lastCall.handler = "requestSort"
    /\ sortConfig = [key |-> "conversionRate", direction |-> "ascending"]
    /\ \E i \in AllOf(brokers) : brokers[i].dailyEntries = <<>>
    /\ \E i \in AllOf(brokers) :
         brokers[i].dailyEntries # <<>> /\ TotalSales(brokers[i]) = 0
    /\ LET rows == comparisonData(brokers, sortConfig)
       IN  /\ Len(rows) = Len(brokers)
           /\ [k \in AllOf(rows) |-> rows[k].brokerName]
                # [i \in AllOf(brokers) |-> brokers[i].brokerName]

\* C18: the sort configuration starts as (totalSales, descending), and every
\* selection of the key that is already the current key flips the direction,
\* so that selecting one key again and again alternates the two directions.
C18_SortToggles ==
    /\ sortConfig = [key |-> "totalSales", direction |-> "descending"]
    /\ [][RequestSort /\ sortConfig'.key = sortConfig.key
            => /\ sortConfig'.direction # sortConfig.direction
               /\ sortConfig'.direction \in {"ascending", "descending"}]_vars

\* C18 witness: totalSales selected at least twice in a row from the start,
\* ascending and then descending again
C18_Witness ==
    /\ lastCall.handler = "requestSort"
    /\ sortConfig = [key |-> "totalSales", direction |-> "descending"]

-----------------------------------------------------------------------------
(* Properties of the dashboard's forms *)

BalanceFields == {"startOfDayBalance", "endOfDayBalance"}

\* no entry of any broker of the list carries a balance
WithoutBalanceFields(list) ==
    \A i \in AllOf(list) : \A k \in AllOf(list[i].dailyEntries) :
        (DOMAIN list[i].dailyEntries[k]) \cap BalanceFields = {}

\* C19: no entry of the store, and so none of the persisted document, ever
\* carries a computed balance (startOfDayBalance, endOfDayBalance), whatever
\* daily-form saves, bulk saves, edits of an existing entry and deletes of
\* entries took place: balances exist in the derived projections only.
C19_NoStoredBalance ==
    /\ WithoutBalanceFields(brokers)
    /\ WithoutBalanceFields(selectedBroker)
    /\ storage # <<>> /\ storage[1].parses
    /\ WithoutBalanceFields(Plain(storage[1].data))

\* C19 witness: an entry picked from the history list, where it carries both
\* balances, was loaded into the form and saved again next to another entry
C19_Witness ==
    /\ lastCall = Report("handleSaveEntry", "saved")
    /\ form.selectedDate = D3 /\ form.selectedDate # Today
    /\ Len(History) = 2
    /\ \A k \in AllOf(History) : BalanceFields \subseteq DOMAIN History[k]
    /\ \E k \in AllOf(selectedBroker[1].dailyEntries) :
         /\ selectedBroker[1].dailyEntries[k] = EntryOf(form.dailyData, D3)
         /\ selectedBroker[1].dailyEntries[k].repiqueLeads = 3
         /\ selectedBroker[1].dailyEntries[k].signedLeads = 3

\* a bulk save over two days and a confirmed delete are reached as well
C19_BulkSaveReached ==
    /\ lastCall = Report("handleBulkSave", "alert: saved")
    /\ Len(selectedBroker[1].dailyEntries) = 2

C19_DeleteReached ==
    /\ lastCall = Report("confirmDelete", "deleted")
    /\ Len(selectedBroker[1].dailyEntries) = 1

\* the text of a number input that denotes a value below zero
NegativeText(val) ==
    /\ val # <<>> /\ val[1] = "-"
    /\ \E i \in AllOf(val) : IsDigit(val[i]) /\ val[i] # "0"

\* a negative value without a fraction
WholeNegativeText(val) ==
    NegativeText(val) /\ \A i \in 2..Len(val) : IsDigit(val[i])

FunnelCounters == DOMAIN initialState

\* no entry of the store has a counter below zero
NoNegativeCounter(list) ==
    \A i \in AllOf(list) : \A k \in AllOf(list[i].dailyEntries) :
        \A c \in FunnelCounters \cap DOMAIN list[i].dailyEntries[k] :
            list[i].dailyEntries[k][c] >= 0

Flagged(flags, field) == field \in DOMAIN flags /\ flags[field]

\* C20: the daily form and the bulk edit never store a negative counter: a
\* negative value entered in a field is flagged at the field and nothing is
\* stored, a save is refused and leaves the store unchanged while any field
\* is flagged, and 0 is put in place of an empty input only.
C20_NegativesRejected ==
    [][/\ NoNegativeCounter(brokers')
       /\ \A field \in FormFields, val \in NumberTexts :
            handleNumberChange(field, InputValue(val)) =>
              /\ brokers' = brokers
              /\ NegativeText(val) => Flagged(form'.errors, field)
              /\ val = <<>> => form'.dailyData[field] = 0
       /\ \A field \in BulkFields, val \in NumberTexts :
            handleBulkNumberChange(field, InputValue(val)) =>
              /\ brokers' = brokers
              /\ NegativeText(val) => Flagged(form'.bulkErrors, field)
       /\ handleSubmit /\ HasActiveErrors(form.errors) => brokers' = brokers
       /\ (\E eastOfUTC \in BOOLEAN : handleBulkSave(eastOfUTC)) /\ HasActiveErrors(form.bulkErrors)
            => brokers' = brokers]_vars

\* what holds of the code: no negative counter is stored, a negative value
\* without a fraction is flagged, and a flagged form is not saved
C20_HoldsForWholeNumbers ==
    [][/\ NoNegativeCounter(brokers')
       /\ \A field \in FormFields, val \in NumberTexts :
            handleNumberChange(field, InputValue(val)) =>
              /\ brokers' = brokers
              /\ WholeNegativeText(val) => Flagged(form'.errors, field)
              /\ val = <<>> => form'.dailyData[field] = 0
       /\ \A field \in BulkFields, val \in NumberTexts :
            handleBulkNumberChange(field, InputValue(val)) =>
              /\ brokers' = brokers
              /\ WholeNegativeText(val) => Flagged(form'.bulkErrors, field)
       /\ handleSubmit /\ HasActiveErrors(form.errors) => brokers' = brokers
       /\ (\E eastOfUTC \in BOOLEAN : handleBulkSave(eastOfUTC)) /\ HasActiveErrors(form.bulkErrors)
            => brokers' = brokers]_vars

-----------------------------------------------------------------------------
(* Properties of the profiles' initial leads *)

\* C21: after any sequence of adds and updates every profile's initialLeads
\* is a non-negative integer: neither the add nor the update stores a
\* negative initialLeads.
C21_InitialLeadsNonNegative ==
    \A i \in AllOf(brokers) : brokers[i].initialLeads \in Nat

\* what holds of the code: a profile enters the store with non-negative
\* initialLeads, and only an update makes them negative
C21_AddStoresNonNegative ==
    [][\A i \in AllOf(brokers') :
         brokers'[i].initialLeads \notin Nat =>
           \/ lastCall'.handler = "handleUpdateBroker"
           \/ \E j \in AllOf(brokers) : brokers[j] = brokers'[i]]_vars

-----------------------------------------------------------------------------
(* Properties of the CSV export *)

Downloaded == lastCall = Report("handleGenerateCsv", "downloaded")

\* the row the claim describes for an entry of the projection
RowOf(walked) ==
    <<(IF walked.date = EmptyDate THEN <<"Invalid Date">>
       ELSE <<walked.date[3], walked.date[2], walked.date[1]>>),
      walked.startOfDayBalance,
      walked.newLeads, walked.discardedLeads, RepiqueOrZero(walked), walked.localVisits,
      walked.contactingLeads, walked.inProgressLeads, walked.scheduledLeads,
      walked.negotiationLeads, walked.creditAnalysisLeads, walked.approvedLeads,
      walked.signedLeads, walked.endOfDayBalance>>

-----------------------------------------------------------------------------
(* Properties of the projection under reordering *)

UniqueDates(entries) ==
    \A i, j \in AllOf(entries) : i # j => entries[i].date # entries[j].date

\* the stored orders of the same entries
StoredOrders(seq) ==
    {[i \in AllOf(seq) |-> seq[f[i]]] :
        f \in {g \in [AllOf(seq) -> AllOf(seq)] : \A i, j \in AllOf(seq) : i # j => g[i] # g[j]}}

\* startOfDay and endOfDay of every date
BalancesByDate(profile) ==
    LET listed == entriesWithCalculatedBalances(profile)
    IN  {<<listed[i].date, listed[i].startOfDayBalance, listed[i].endOfDayBalance>> :
            i \in AllOf(listed)}

\* C23: the balance projection depends on initialLeads and on the set of
\* entries only: any two stored orders of the same entries with unique dates
\* give the same startOfDay and endOfDay for every date.
C23_ProjectionIgnoresStoredOrder ==
    (DashboardShown /\ UniqueDates(Profile.dailyEntries)) =>
      \A reordered \in StoredOrders(Profile.dailyEntries) :
          BalancesByDate([Profile EXCEPT !.dailyEntries = reordered]) = BalancesByDate(Profile)

\* what holds of the code: the same, when every date is a date
C23_HoldsForWellFormedDates ==
    (DashboardShown /\ WellFormedUniqueDates(Profile.dailyEntries)) =>
      \A reordered \in StoredOrders(Profile.dailyEntries) :
          BalancesByDate([Profile EXCEPT !.dailyEntries = reordered]) = BalancesByDate(Profile)

-----------------------------------------------------------------------------
(* Properties of the entry upsert and delete *)

\* the entries the store specification saves
SavedEntryInputs == {EntryOf(FormA, date) : date \in StoreDates}

\* the store after handleSaveEntry(entry) is called in the state reached
SavedAgain(entry) ==
    MapSelected(brokers', selectedBroker'[1].brokerName,
                [i \in AllOf(brokers') |-> UpsertEntry(brokers'[i].dailyEntries, entry)])

\* C24: the entry upsert is idempotent: upserting the same entry for the
\* selected broker a second time leaves the store as the first upsert left
\* it, with the same number of entries in the same order.
C24_UpsertIdempotent ==
    [][\A entry \in SavedEntryInputs :
         (DashboardShown /\ handleSaveEntry(entry)) =>
           /\ SavedAgain(entry) = brokers'
           /\ \A i \in AllOf(brokers') :
                Len(SavedAgain(entry)[i].dailyEntries) = Len(brokers'[i].dailyEntries)]_vars

\* C24 witness: an entry was saved for the selected one of two brokers,
\* which now holds it
C24_Witness ==
    /\ lastCall = Report("handleSaveEntry", "saved")
    /\ Len(brokers) = 2
    /\ DashboardShown
    /\ \E i \in AllOf(brokers) :
         /\ brokers[i] = selectedBroker[1]
         /\ \E k \in AllOf(brokers[i].dailyEntries) :
              brokers[i].dailyEntries[k] \in SavedEntryInputs

-----------------------------------------------------------------------------
(* The handlers App hands to its children, called with any argument *)

HandlerDates == {D2, D3}

CallAddBroker ==
    /\ \E name \in NameInputs, initialLeads \in InitialLeadsInputs, goal \in GoalInputs :
         handleAddBroker(name, initialLeads, goal)
    /\ UNCHANGED <<editingBroker, sortConfig, form>>

CallUpdateBroker ==
    /\ \E originalName \in NameInputs, brokerName \in NameInputs,
          initialLeads \in InitialLeadsInputs, goal \in GoalInputs :
         handleUpdateBroker(originalName,
                            [brokerName |-> brokerName, initialLeads |-> initialLeads,
                             monthlySalesGoal |-> goal])
    /\ UNCHANGED <<editingBroker, sortConfig, form>>

\* the dashboard unmounts when the selected broker is deleted
CallDeleteBroker ==
    /\ \E name \in NameInputs, confirmed \in BOOLEAN : handleDeleteBroker(name, confirmed)
    /\ form' = IF selectedBroker' = <<>> THEN NoForm ELSE form
    /\ UNCHANGED <<editingBroker, sortConfig>>

CallSelectBroker ==
    \E name \in NameInputs : handleSelectBroker(name)

CallSwitchBroker == handleSwitchBroker

CallSaveEntry ==
    \E date \in HandlerDates : handleSaveEntry(EntryOf(FormA, date))

CallDeleteEntry ==
    \E date \in HandlerDates : handleDeleteEntry(date)

NextHandlers ==
    \/ CallAddBroker
    \/ CallUpdateBroker
    \/ CallDeleteBroker
    \/ CallSelectBroker
    \/ CallSwitchBroker
    \/ CallSaveEntry
    \/ CallDeleteEntry

SpecHandlers == Init /\ [][NextHandlers]_vars

\* a broker of this exact name is in the store
InStore(name) == \E i \in AllOf(brokers) : brokers[i].brokerName = name

\* a broker named like the selected one has an entry of the date
SelectedHasEntry(date) ==
    \E i \in AllOf(brokers) :
       /\ brokers[i].brokerName = selectedBroker[1].brokerName
       /\ \E k \in AllOf(brokers[i].dailyEntries) : brokers[i].dailyEntries[k].date = date

\* the call ended in an alert
Alerted(call) ==
    call.result \in {"alert: duplicate name", "alert: duplicate name, false"}

StoreUntouched == brokers' = brokers /\ selectedBroker' = selectedBroker

\* the calls on a missing broker or date other than the rename
C25_OtherMissingReferences ==
    /\ \A date \in HandlerDates :
         (handleDeleteEntry(date) /\ DashboardShown /\ ~SelectedHasEntry(date)) =>
             StoreUntouched /\ ~Alerted(lastCall')
    /\ \A name \in NameInputs :
         (handleSelectBroker(name) /\ ~InStore(name)) =>
             StoreUntouched /\ ~Alerted(lastCall')
    /\ \A date \in HandlerDates :
         (handleSaveEntry(EntryOf(FormA, date)) /\ ~DashboardShown) =>
             StoreUntouched /\ ~Alerted(lastCall')
    /\ \A date \in HandlerDates :
         (handleDeleteEntry(date) /\ ~DashboardShown) =>
             StoreUntouched /\ ~Alerted(lastCall')
    /\ \A name \in NameInputs, confirmed \in BOOLEAN :
         (handleDeleteBroker(name, confirmed) /\ ~InStore(name)) =>
             StoreUntouched /\ ~Alerted(lastCall')

-----------------------------------------------------------------------------
(* Export of a backup and import of the exported file *)

BackupLeadTexts == {<<"7">>, <<".", "5">>}
BackupGoalTexts == {<<"5">>}

BackupAdd ==
    /\ ManagementShown /\ ~ModalOpen
    /\ \E name \in {Ana, Bob}, leads \in BackupLeadTexts, goal \in BackupGoalTexts :
         BrokerManagement_handleSubmit(name, InputValue(leads), InputValue(goal))

BackupSaveChanges ==
    /\ ManagementShown /\ ModalOpen
    /\ \E name \in {Ana, Bob}, leads \in BackupLeadTexts, goal \in BackupGoalTexts :
         handleSaveChanges(name, InputValue(leads), InputValue(goal))

ExportData ==
    /\ ManagementShown /\ ~ModalOpen
    /\ handleExportData

\* the user picks the file that was just downloaded
BackupFileChange ==
    /\ ManagementShown /\ ~ModalOpen
    /\ lastCall = Report("handleExportData", "downloaded")
    /\ handleFileChange(ExportedDocument(brokers))

NextBackup ==
    \/ BackupAdd
    \/ EditClick
    \/ BackupSaveChanges
    \/ CloseModal
    \/ SelectBroker
    \/ SwitchBroker
    \/ SaveEntry
    \/ DeleteEntry
    \/ ExportData
    \/ BackupFileChange
    \/ ReaderOnload

SpecBackup == Init /\ [][NextBackup]_vars

\* the file being read is the backup of the store as it is now
ReadingOwnBackup ==
    brokers # <<>> /\ pendingFile = <<ExportedDocument(brokers)>>

Restored == lastCall' = Report("handleRestoreBrokers", "alert: restored")

\* C26: the backup of a non-empty store reached by adds, updates, entry
\* saves and entry deletes passes the validation of the import, and
\* restoring it gives a store equal to the exported one.
C26_BackupRoundTrip ==
    [][(ReadingOwnBackup /\ readerOnload(TRUE)) =>
          Restored /\ brokers' = brokers]_vars

\* the round trip of a store all of whose initialLeads are numbers
C26_HoldsWithoutNaN ==
    [][(/\ ReadingOwnBackup
        /\ \A i \in AllOf(brokers) : brokers[i].initialLeads # NaN
        /\ readerOnload(TRUE)) =>
          Restored /\ brokers' = brokers]_vars

\* a backup with entries was restored
C26_RestoreReached ==
    /\ lastCall = Report("handleRestoreBrokers", "alert: restored")
    /\ \E i \in AllOf(brokers) : brokers[i].dailyEntries # <<>>

-----------------------------------------------------------------------------
(* Entry saves and deletes on a store that came from a backup file *)

\* a file whose two profiles carry the same name, which the validation of
\* the import accepts
FileTwins ==
    [parses |-> TRUE,
     data |-> JStore(<<[brokerName |-> Bob, initialLeads |-> 0, monthlySalesGoal |-> 5,
                        dailyEntries |-> <<EntryOf(FormB, D2)>>],
                       [brokerName |-> Bob, initialLeads |-> 100, monthlySalesGoal |-> 5,
                        dailyEntries |-> <<>>]>>)]

RestoreFiles == {FileBackup, FileTwins}
RestoreForms == {FormA, FormB}

RestoreFileChange ==
    /\ ManagementShown /\ ~ModalOpen
    /\ \E file \in RestoreFiles : handleFileChange(file)

RestoreSaveEntry ==
    /\ DashboardShown
    /\ \E date \in HandlerDates, dailyData \in RestoreForms :
         handleSaveEntry(EntryOf(dailyData, date))

RestoreDeleteEntry ==
    /\ DashboardShown
    /\ \E date \in HandlerDates : handleDeleteEntry(date)

NextRestore ==
    \/ AddBroker
    \/ RestoreFileChange
    \/ ReaderOnload
    \/ SelectBroker
    \/ SwitchBroker
    \/ RestoreSaveEntry
    \/ RestoreDeleteEntry

SpecRestore == Init /\ [][NextRestore]_vars

\* the position of the selected broker's profile in the store
SelectedPosition ==
    FirstOf({i \in AllOf(brokers) : brokers[i].brokerName = selectedBroker[1].brokerName})

\* every profile but the one at position sel is as it was, and that one
\* keeps all its fields but dailyEntries
OnlyEntriesOf(sel) ==
    /\ Len(brokers') = Len(brokers)
    /\ \A i \in AllOf(brokers) : i # sel => brokers'[i] = brokers[i]
    /\ DOMAIN brokers'[sel] = DOMAIN brokers[sel]
    /\ \A k \in DOMAIN brokers[sel] \ {"dailyEntries"} : brokers'[sel][k] = brokers[sel][k]

\* after is before with the first entry of the date replaced by entry, or
\* with entry added at the end when before has none of the date
ReplacedOrAppended(before, after, entry) ==
    LET at == {k \in AllOf(before) : before[k].date = entry.date}
    IN  IF at = {}
        THEN after = before \o <<entry>>
        ELSE /\ Len(after) = Len(before)
             /\ \A k \in AllOf(before) :
                  after[k] = IF k = FirstOf(at) THEN entry ELSE before[k]

\* after is before without its entries of the date
Removed(before, after, date) ==
    LET Kept(e) == e.date # date
    IN  after = SelectSeq(before, Kept)

SelectedInStore == DashboardShown /\ InStore(selectedBroker[1].brokerName)

SavedFrame(entry) ==
    /\ OnlyEntriesOf(SelectedPosition)
    /\ ReplacedOrAppended(brokers[SelectedPosition].dailyEntries,
                          brokers'[SelectedPosition].dailyEntries, entry)

DeletedFrame(date) ==
    /\ OnlyEntriesOf(SelectedPosition)
    /\ Removed(brokers[SelectedPosition].dailyEntries,
               brokers'[SelectedPosition].dailyEntries, date)

RestoreEntryInputs == {EntryOf(dailyData, date) : dailyData \in RestoreForms, date \in HandlerDates}

\* C27: an entry save or delete for a date on the selected broker changes
\* one profile only and in it only the entry of that date: an existing entry
\* is replaced where it is (or removed), a missing one is added at the end;
\* the other entries, the name, initialLeads and the goal of that profile and
\* every other profile stay as they were.
C27_UpsertDeleteFrame ==
    [][/\ \A entry \in RestoreEntryInputs :
            (SelectedInStore /\ handleSaveEntry(entry)) => SavedFrame(entry)
       /\ \A date \in HandlerDates :
            (SelectedInStore /\ handleDeleteEntry(date)) => DeletedFrame(date)]_vars

\* one profile carries the selected name
SelectedNameOnce ==
    /\ DashboardShown
    /\ Cardinality({i \in AllOf(brokers) :
                      brokers[i].brokerName = selectedBroker[1].brokerName}) = 1

\* the frame property on stores where one profile carries the selected name
C27_HoldsForUniqueNames ==
    [][/\ \A entry \in RestoreEntryInputs :
            (SelectedNameOnce /\ handleSaveEntry(entry)) => SavedFrame(entry)
       /\ \A date \in HandlerDates :
            (SelectedNameOnce /\ handleDeleteEntry(date)) => DeletedFrame(date)]_vars

\* an entry of the selected one of two brokers was replaced
C27_ReplaceReached ==
    /\ lastCall = Report("handleSaveEntry", "saved")
    /\ Len(brokers) = 2
    /\ SelectedNameOnce
    /\ Len(brokers[SelectedPosition].dailyEntries) = 2

-----------------------------------------------------------------------------
(* The bulk save *)

\* the dates from start to end inclusive
DateRange(start, end) ==
    {date \in {D1, D2, D3} : ~DateLess(date, start) /\ ~DateLess(end, date)}

\* the entries of a list whose date is outside a set, in their order
Outside(dailyEntries, dates) ==
    LET Out(e) == e.date \notin dates
    IN  SelectSeq(dailyEntries, Out)

\* the entries of a date
EntriesOf(dailyEntries, date) ==
    {k \in AllOf(dailyEntries) : dailyEntries[k].date = date}

\* the value a bulk save is to leave in a field of the entry of a date
BulkExpected(before, bulkDailyData, date, field) ==
    IF field \in DOMAIN bulkDailyData /\ bulkDailyData[field] # <<>>
    THEN bulkDailyData[field][1]
    ELSE IF EntriesOf(before, date) = {} THEN 0
    ELSE before[FirstOf(EntriesOf(before, date))][field]

\* the store after a bulk save over [start, end] that went through
BulkSaved(start, end) ==
    LET before == brokers[SelectedPosition].dailyEntries
        after == brokers'[SelectedPosition].dailyEntries
        range == DateRange(start, end)
    IN  /\ \A date \in range :
             /\ Cardinality(EntriesOf(after, date)) = 1
             /\ \A field \in DOMAIN initialState :
                  after[FirstOf(EntriesOf(after, date))][field] =
                      BulkExpected(before, form.bulkDailyData, date, field)
        /\ Outside(after, range) = Outside(before, range)

BulkSaveStepIn(eastOfUTC) ==
    /\ form.showBulkEditModal
    /\ form.bulkStartDate # EmptyDate /\ form.bulkEndDate # EmptyDate
    /\ handleBulkSave(eastOfUTC)

\* C28: a bulk save over [start, end] with start <= end leaves the selected
\* broker with exactly one entry for every date of the range and changes no
\* entry outside it; a field filled in the bulk form has the bulk value, a
\* field left empty keeps the value of the entry the date had, or is 0 when
\* it had none. A bulk save with start later than end is rejected and leaves
\* the store unchanged.
C28_BulkSaveCoversRange ==
    [][\A eastOfUTC \in BOOLEAN :
         BulkSaveStepIn(eastOfUTC) =>
            IF DateLess(form.bulkEndDate, form.bulkStartDate)
            THEN /\ brokers' = brokers
                 /\ lastCall' = Report("handleBulkSave", "alert: start after end")
            ELSE lastCall' = Report("handleBulkSave", "alert: saved") =>
                     BulkSaved(form.bulkStartDate, form.bulkEndDate)]_vars

\* the same in a browser whose time zone is UTC or west of it
C28_HoldsWestOfUTC ==
    [][BulkSaveStepIn(FALSE) =>
            IF DateLess(form.bulkEndDate, form.bulkStartDate)
            THEN /\ brokers' = brokers
                 /\ lastCall' = Report("handleBulkSave", "alert: start after end")
            ELSE lastCall' = Report("handleBulkSave", "alert: saved") =>
                     BulkSaved(form.bulkStartDate, form.bulkEndDate)]_vars

\* a bulk save over two days went through on a history of two entries
C28_TwoDaysReached ==
    /\ lastCall = Report("handleBulkSave", "alert: saved")
    /\ Len(brokers[1].dailyEntries) = 2
    /\ \E k \in AllOf(brokers[1].dailyEntries) :
         brokers[1].dailyEntries[k].date = D3 /\ brokers[1].dailyEntries[k].signedLeads = 3
    /\ \E k \in AllOf(brokers[1].dailyEntries) :
         brokers[1].dailyEntries[k].date = D2 /\ brokers[1].dailyEntries[k].signedLeads = 3

\* a bulk save was rejected for its dates
C28_RejectReached ==
    lastCall = Report("handleBulkSave", "alert: start after end")

-----------------------------------------------------------------------------
(* The selected profile and the store *)

\* the selected profile is a profile of the store
SelectedIsStored ==
    \E i \in AllOf(brokers) : brokers[i] = selectedBroker[1]

\* C29: whenever a broker is selected, the selected profile equals the
\* store's profile of the same name, after any sequence of select, entry
\* save, bulk save, entry delete, switch, rename, delete and restore.
C29_SelectedMatchesStore ==
    DashboardShown => SelectedIsStored

\* every step but a restore keeps the selected profile equal to the store's
C29_HoldsWithoutRestore ==
    [][((DashboardShown => SelectedIsStored)
         /\ lastCall' # Report("handleRestoreBrokers", "alert: restored"))
        => (DashboardShown => SelectedIsStored)']_vars

\* an entry was saved for the selected one of two brokers and shows in both
C29_SaveReached ==
    /\ lastCall = Report("handleSaveEntry", "saved")
    /\ Len(brokers) = 2
    /\ DashboardShown /\ SelectedIsStored
    /\ selectedBroker[1].dailyEntries # <<>>

-----------------------------------------------------------------------------
(* BrokerDashboard: the PDF report *)

\* renders in flight at one time
MaxRenders == 2

\* handleGeneratePdf up to its await; found says whether the page has a
\* '.printable-area' element. Without one the flag is set and cleared
\* before the next render of the component.
handleGeneratePdf(found) ==
    /\ IF found
       THEN /\ form' = [form EXCEPT !.isGeneratingPdf = TRUE]
            /\ pdfExport' = [exportMode |-> TRUE, renders |-> pdfExport.renders + 1]
            /\ lastCall' = Report("handleGeneratePdf", "rendering")
       ELSE /\ lastCall' = Report("handleGeneratePdf", "error: no printable area")
            /\ UNCHANGED <<form, pdfExport>>
    /\ UNCHANGED <<brokers, selectedBroker, selectedMonth, editingBroker, sortConfig, pendingFile,
                   storage, storageFull>>

\* a continuation whose catch block has no finally after it
renderSettledWithoutFinally(outcome, ofMounted) ==
    /\ pdfExport' = [exportMode |-> pdfExport.exportMode /\ outcome = "threw",
                     renders |-> pdfExport.renders - 1]
    /\ form' = IF ofMounted /\ outcome = "saved"
               THEN [form EXCEPT !.isGeneratingPdf = FALSE] ELSE form
    /\ lastCall' = Report("handleGeneratePdf",
                          IF outcome = "saved" THEN "saved" ELSE "alert: failed")
    /\ UNCHANGED <<brokers, selectedBroker, selectedMonth, editingBroker, sortConfig, pendingFile,
                   storage, storageFull>>

\* handleGeneratePdf after its await: the try block ends in pdf.save or in the
\* catch block, then finally removes the class and clears the flag; the
\* setter of a dashboard that is no longer mounted changes nothing
renderSettled(outcome, ofMounted) ==
    /\ pdfExport' = [exportMode |-> FALSE, renders |-> pdfExport.renders - 1]
    /\ form' = IF ofMounted THEN [form EXCEPT !.isGeneratingPdf = FALSE] ELSE form
    /\ lastCall' = Report("handleGeneratePdf",
                          IF outcome = "saved" THEN "saved" ELSE "alert: failed")
    /\ UNCHANGED <<brokers, selectedBroker, selectedMonth, editingBroker, sortConfig, pendingFile,
                   storage, storageFull>>

-----------------------------------------------------------------------------
(* One broker's dashboard and its PDF report *)

\* the mounted dashboard is generating
Busy == DashboardShown /\ form.isGeneratingPdf

\* renders started by dashboards that are no longer mounted
Orphans == pdfExport.renders - (IF Busy THEN 1 ELSE 0)

RenderOutcomes == {"saved", "threw"}

\* the button is disabled while the flag is set
GeneratePdf ==
    /\ DashboardShown /\ FormIdle
    /\ ~form.isGeneratingPdf
    /\ pdfExport.renders < MaxRenders
    /\ \E found \in BOOLEAN : handleGeneratePdf(found)

MountedRenderSettles ==
    /\ Busy
    /\ \E outcome \in RenderOutcomes : renderSettled(outcome, TRUE)

OrphanRenderSettles ==
    /\ Orphans > 0
    /\ \E outcome \in RenderOutcomes : renderSettled(outcome, FALSE)

NextPdf ==
    \/ GeneratePdf
    \/ MountedRenderSettles
    \/ OrphanRenderSettles
    \/ SwitchBroker
    \/ SelectBroker
    \/ SaveEntry
    \/ DeleteEntry

SpecPdf == InitDash /\ [][NextPdf]_vars

\* the promise of html2canvas settles and its continuation is run
SpecPdfFair ==
    SpecPdf /\ WF_vars(MountedRenderSettles) /\ WF_vars(OrphanRenderSettles)

PdfStarts == pdfExport'.renders > pdfExport.renders

C30_MissingAreaReached ==
    /\ lastCall = Report("handleGeneratePdf", "error: no printable area")
    /\ ~Busy /\ ~pdfExport.exportMode

====
